---------------------------- MODULE Spec2Model ----------------------------
(***************************************************************************)
(* A model of generate.py, the script that builds the SQLite catalog of    *)
(* sensor files, seasons, cultivars and weather readings.                  *)
(*                                                                         *)
(* The script is a batch pipeline of independent stages.  Each stage is    *)
(* modelled as a small state machine over its own variables, and has a     *)
(* specification of its own:                                               *)
(*                                                                         *)
(*   SpecBracket    find_file_weather_ids and its inner b_search            *)
(*   SpecWeather    get_save_weather, get_ordered_weather_ids_timestamps    *)
(*   SpecRange      validate_date, generate_dates                           *)
(*   SpecDates      prepare_dates                                           *)
(*   SpecGenerate   generate: the order of the stages and the publication   *)
(*   SpecDiscovery  globus_get_files, globus_get_files_info,                *)
(*                  globus_get_files_details, globus_get_save_files         *)
(*   SpecPlot       map_file_to_plot_id inside globus_get_save_files        *)
(*   SpecMap        create_weather_files_table                              *)
(*   SpecExperiments  get_save_experiments, save_cultivars                  *)
(*   SpecViews      the build up to create_db_views' cultivar_files         *)
(*   SpecByDates    get_experiments_by_dates                                *)
(*   SpecBracketRuns  SpecBracket, the function running to its end          *)
(*                                                                         *)
(* Python's None is the integer None (-1): every value it stands in for    *)
(* is a non-negative index or identifier.  Python indices are kept         *)
(* 0-based; At(s, i) reads a tuple at a Python index.                      *)
(***************************************************************************)
EXTENDS Integers, Sequences, FiniteSets, TLC

VARIABLES
    \* ---- find_file_weather_ids / b_search
    ordered_weather_ids,          \* argument: the ascending weather ids
    ordered_weather_timestamps,   \* argument: the ascending timestamps
    start_ts, finish_ts,          \* arguments: the file's capture window
    first_idx, last_idx,          \* b_search's locals
    min_start_index, max_start_index,
    min_finish_index, max_finish_index,
    weather_pair,                 \* the returned (min id, max id), or <<>>
    fpc,                          \* where find_file_weather_ids stands
    \* ---- get_save_weather / get_ordered_weather_ids_timestamps
    date_experiment_ids,          \* argument: the dates, in the dict's key order
    all_weather,                  \* globus_get_all_weather's result
    weather_timestamps,           \* weather id -> timestamp (ids are 1..n)
    weather_id,                   \* the next weather id
    date_pos, reading_pos,        \* the two loops' positions (1-based)
    problems_found,
    ordered_weather,              \* get_ordered_...'s result (ids, timestamps)
    wpc,                          \* where get_save_weather stands
    \* ---- generate
    gene_marker_file,             \* argument: --gene_marker_file given
    cultivar_gene_map_file,       \* argument: --cultivar_gene_map_file given
    working_file,                 \* the temporary database file exists
    output_file,                  \* what is at args.output_file
    tables,                       \* the tables and views of the working db
    raised,                       \* the stage that raised, or "none"
    gpc,                          \* where generate stands
    \* ---- generate_dates
    start_date, last_date,        \* arguments: two date strings
    range_dates,                  \* the returned list of date strings
    rpc,                          \* where generate_dates stands
    \* ---- prepare_dates
    all_dates,                    \* dates_arg.split(','), each item split on ':'
    item_pos,                     \* the loop's position in all_dates (1-based)
    dates,                        \* the expanded dates so far
    problems,
    dpc,                          \* where prepare_dates stands
    \* ---- globus_get_files / globus_get_save_files
    found_files,                  \* date -> the records returned so far
    working_file_set,             \* date -> the records waiting for details
    download_file_list,           \* the sidecar paths waiting for retrieval
    walk_date,                    \* the position in date_experiment_ids.keys()
    num_entries, entry_no,        \* len(path_contents), the position in it
    files_info_made,              \* every record globus_get_files_info returned
    mapper_gave_none,             \* the files the mapper returned None for
    files_rows,                   \* the rows of the files table
    tpc,                          \* where globus_get_save_files stands
    \* ---- map_file_to_plot_id
    file_parts,                   \* file_path.split('/'), as a set of segments
    season_id,                    \* argument: the season of the file
    seasons,                      \* argument: the list of seasons
    found_plot_id,                \* the returned plot id, or None
    ppc,                          \* where map_file_to_plot_id stands
    \* ---- create_weather_files_table
    files_timestamps,             \* file id -> (start, finish), ids are 1..n
    map_file,                     \* the position in files_timestamps.items()
    wf_id,                        \* the next id of weather_file_map
    weather_file_map,             \* the rows of weather_file_map
    mpc,                          \* where create_weather_files_table stands
    \* ---- get_save_experiments / save_cultivars
    found_exp_no,                 \* the position in found_experiments (0: none yet)
    exp_sites,                    \* found_exp['sites']
    exp_cultivars,                \* all_cultivars[found_exp['id']]
    site_no,                      \* the position in found_exp['sites']
    season_info,                  \* the rows of season_info
    rows_before,                  \* the number of rows before found_exp
    cultivars_matched,
    problem_found,
    cultivars,                    \* the rows of the cultivars table
    epc,                          \* where get_save_experiments stands
    \* ---- create_db_views
    files_table,                  \* the rows of the files table
    cultivar_files,               \* the rows of the cultivar_files view
    \* ---- get_experiments_by_dates
    requested_dates,              \* argument "dates": prepare_dates' result
    experiments,                  \* result_json['data'], in response order
    exp_pos,                      \* the position in experiments (1-based)
    found_experiments,            \* the ids of the experiments found
    date_experiment_id,           \* the set of <<date, experiment id>>
    remaining_dates,              \* the dates without experiment, as a set
    bpc                           \* where get_experiments_by_dates stands

bracketVars == <<ordered_weather_ids, ordered_weather_timestamps, start_ts,
                 finish_ts, first_idx, last_idx, min_start_index,
                 max_start_index, min_finish_index, max_finish_index,
                 weather_pair, fpc>>

weatherVars == <<date_experiment_ids, all_weather, weather_timestamps,
                 weather_id, date_pos, reading_pos, problems_found,
                 ordered_weather, wpc>>

generateVars == <<gene_marker_file, cultivar_gene_map_file, working_file,
                  output_file, tables, raised, gpc>>

rangeVars == <<start_date, last_date, range_dates, rpc>>

datesVars == <<all_dates, item_pos, dates, problems, dpc>>

discoveryVars ==
    <<found_files, working_file_set, download_file_list, walk_date,
      num_entries, entry_no, files_info_made, mapper_gave_none, files_rows,
      tpc>>

plotVars == <<file_parts, season_id, seasons, found_plot_id, ppc>>

mapVars == <<files_timestamps, map_file, wf_id, weather_file_map, mpc>>

experimentsVars ==
    <<found_exp_no, exp_sites, exp_cultivars, site_no, season_info,
      rows_before, cultivars_matched, problem_found, cultivars, epc>>

viewsVars == <<files_table, cultivar_files>>

byDatesVars ==
    <<requested_dates, experiments, exp_pos, found_experiments,
      date_experiment_id, remaining_dates, bpc>>

vars ==
    <<bracketVars, weatherVars, generateVars, rangeVars, datesVars,
      discoveryVars, plotVars, mapVars, experimentsVars,
      viewsVars, byDatesVars>>

\* what the actions of one stage leave alone
othersThanBracket ==
    <<weatherVars, generateVars, rangeVars, datesVars,
      discoveryVars, plotVars, mapVars, experimentsVars,
      viewsVars, byDatesVars>>
othersThanWeather ==
    <<bracketVars, generateVars, rangeVars, datesVars,
      discoveryVars, plotVars, mapVars, experimentsVars,
      viewsVars, byDatesVars>>
othersThanGenerate ==
    <<bracketVars, weatherVars, rangeVars, datesVars,
      discoveryVars, plotVars, mapVars, experimentsVars,
      viewsVars, byDatesVars>>
othersThanRange ==
    <<bracketVars, weatherVars, generateVars, datesVars,
      discoveryVars, plotVars, mapVars, experimentsVars,
      viewsVars, byDatesVars>>
othersThanDates ==
    <<bracketVars, weatherVars, generateVars, rangeVars,
      discoveryVars, plotVars, mapVars, experimentsVars,
      viewsVars, byDatesVars>>
othersThanDiscovery ==
    <<bracketVars, weatherVars, generateVars, rangeVars,
      datesVars, plotVars, mapVars, experimentsVars,
      viewsVars, byDatesVars>>
othersThanPlot ==
    <<bracketVars, weatherVars, generateVars, rangeVars,
      datesVars, discoveryVars, mapVars, experimentsVars,
      viewsVars, byDatesVars>>
othersThanMap ==
    <<bracketVars, weatherVars, generateVars, rangeVars,
      datesVars, discoveryVars, plotVars, experimentsVars,
      viewsVars, byDatesVars>>
othersThanExperiments ==
    <<bracketVars, weatherVars, generateVars, rangeVars,
      datesVars, discoveryVars, plotVars, mapVars, viewsVars, byDatesVars>>
othersThanByDates ==
    <<bracketVars, weatherVars, generateVars, rangeVars,
      datesVars, discoveryVars, plotVars, mapVars, experimentsVars,
      viewsVars>>

----------------------------------------------------------------------------
(* Bounds of the model *)

\* the largest timestamp (seconds) of a weather reading or a file
MaxTs == 5
\* the largest number of weather readings in the ordered index
MaxLen == 4
\* the number of calendar days the weather stage may be asked for
MaxWeatherDates == 2
\* the largest number of readings in the weather files of one day
MaxReadings == 2
\* the largest time of day (in ticks) of a weather reading
MaxTick == 1
\* the calendar year the dates start in
FirstYear == 2019
\* the days kept at the start of each month (the last days are all kept)
EdgeDays == 2
\* the largest number of comma separated items of the dates argument
MaxItems == 2
\* the largest number of colons in one item
MaxColons == 2
\* the number of dates globus_get_files walks
MaxWalkDates == 2
\* the largest number of entries of a date's folder
MaxEntries == 2
\* the largest timestamp token of a file name (0: the name has none)
MaxToken == 1
\* the largest number of sidecar files a capture folder holds
MaxSidecars == 1
\* the largest number of data files of a capture folder with mixed names
MaxMixed == 2
\* the number of data files of a large capture folder
BulkFiles == 11
\* the largest number of seasons, and of sites of a season
MaxSeasons == 2
MaxSites == 2
\* the largest season id, and the largest site name
MaxSeasonId == 2
MaxSiteName == 2
\* the largest timestamp and the largest number of files of the file map
MaxMapTs == 3
MaxMapFiles == 2
\* the largest number of experiments, of sites and of BRAPI entries of one
MaxExperiments == 2
MaxExpSites == 2
MaxEntriesBrapi == 2
\* the largest site id and the largest germplasm id
MaxSiteId == 2
MaxGermplasm == 2
\* create_db_views: the files of the files table
MaxViewFiles == 2
\* get_experiments_by_dates: the days of the window, the requested dates
\* and the experiments of the response
MaxWindowDays == 4
MaxRequested == 2
MaxResponse == 2

----------------------------------------------------------------------------
(* Shared helpers *)

None == -1

At(s, i) == s[i + 1]

Abs(x) == IF x < 0 THEN -x ELSE x

\* the tuples a sort can produce: ascending, duplicates allowed
IsAscending(s) == \A i \in 1..Len(s) - 1 : s[i] <= s[i + 1]

IsStrictlyAscending(s) == \A i \in 1..Len(s) - 1 : s[i] < s[i + 1]

SeqsUpTo(S, n) == UNION {[1..k -> S] : k \in 0..n}

----------------------------------------------------------------------------
(* The stages that a specification leaves out stay idle.                   *)

IdleBracket ==
    /\ ordered_weather_ids = <<>>
    /\ ordered_weather_timestamps = <<>>
    /\ start_ts = 0
    /\ finish_ts = 0
    /\ first_idx = 0
    /\ last_idx = 0
    /\ min_start_index = None
    /\ max_start_index = None
    /\ min_finish_index = None
    /\ max_finish_index = None
    /\ weather_pair = <<>>
    /\ fpc = "idle"

IdleWeather ==
    /\ date_experiment_ids = <<>>
    /\ all_weather = <<>>
    /\ weather_timestamps = <<>>
    /\ weather_id = 1
    /\ date_pos = 1
    /\ reading_pos = 1
    /\ problems_found = FALSE
    /\ ordered_weather = <<>>
    /\ wpc = "idle"

IdleGenerate ==
    /\ gene_marker_file = FALSE
    /\ cultivar_gene_map_file = FALSE
    /\ working_file = FALSE
    /\ output_file = "absent"
    /\ tables = {}
    /\ raised = "none"
    /\ gpc = "idle"

IdleRange ==
    /\ start_date = <<>>
    /\ last_date = <<>>
    /\ range_dates = <<>>
    /\ rpc = "idle"

IdleDates ==
    /\ all_dates = <<>>
    /\ item_pos = 1
    /\ dates = <<>>
    /\ problems = FALSE
    /\ dpc = "idle"

IdleDiscovery ==
    /\ found_files = <<>>
    /\ working_file_set = <<>>
    /\ download_file_list = <<>>
    /\ walk_date = 1
    /\ num_entries = 0
    /\ entry_no = 1
    /\ files_info_made = {}
    /\ mapper_gave_none = {}
    /\ files_rows = <<>>
    /\ tpc = "idle"

IdlePlot ==
    /\ file_parts = {}
    /\ season_id = 1
    /\ seasons = <<>>
    /\ found_plot_id = None
    /\ ppc = "idle"

IdleMap ==
    /\ files_timestamps = <<>>
    /\ map_file = 1
    /\ wf_id = 1
    /\ weather_file_map = <<>>
    /\ mpc = "idle"

IdleExperiments ==
    /\ found_exp_no = 0
    /\ exp_sites = <<>>
    /\ exp_cultivars = <<>>
    /\ site_no = 1
    /\ season_info = <<>>
    /\ rows_before = 0
    /\ cultivars_matched = <<>>
    /\ problem_found = FALSE
    /\ cultivars = <<>>
    /\ epc = "idle"

IdleViews ==
    /\ files_table = <<>>
    /\ cultivar_files = <<>>

IdleByDates ==
    /\ requested_dates = <<>>
    /\ experiments = <<>>
    /\ exp_pos = 1
    /\ found_experiments = <<>>
    /\ date_experiment_id = {}
    /\ remaining_dates = {}
    /\ bpc = "idle"

----------------------------------------------------------------------------
(* find_file_weather_ids (src/generate.py 1493-1577)                       *)

Timestamps == 0..MaxTs

\* The state after the call: the arguments are bound, b_search(start_ts)
\* is about to run.  The ids are those of get_save_weather: 1..n.
InitBracket ==
    /\ ordered_weather_timestamps \in
           {s \in SeqsUpTo(Timestamps, MaxLen) : IsAscending(s)}
    /\ ordered_weather_ids = [i \in 1..Len(ordered_weather_timestamps) |-> i]
    /\ start_ts \in Timestamps
    /\ finish_ts \in Timestamps
    /\ first_idx = 0
    /\ last_idx = Len(ordered_weather_timestamps) - 1
    /\ min_start_index = None
    /\ max_start_index = None
    /\ min_finish_index = None
    /\ max_finish_index = None
    /\ weather_pair = <<>>
    /\ fpc = "call_start"
    /\ IdleWeather
    /\ IdleGenerate
    /\ IdleRange
    /\ IdleDates
    /\ IdleDiscovery
    /\ IdlePlot
    /\ IdleMap
    /\ IdleExperiments
    /\ IdleViews
    /\ IdleByDates

\* The timestamp the running b_search looks for.
search_timestamp ==
    IF fpc \in {"call_start", "loop_start"} THEN start_ts ELSE finish_ts

\* b_search returns (lo, hi): the pair lands in the caller's variables
\* of the search that is running, and the caller moves on.
BSearchReturn(lo, hi) ==
    IF fpc \in {"call_start", "loop_start"}
    THEN /\ min_start_index' = lo
         /\ max_start_index' = hi
         /\ fpc' = "call_finish"
         /\ UNCHANGED <<min_finish_index, max_finish_index>>
    ELSE /\ min_finish_index' = lo
         /\ max_finish_index' = hi
         /\ fpc' = "check"
         /\ UNCHANGED <<min_start_index, max_start_index>>

\* b_search up to its loop: the empty tuple, the one-element tuple and the
\* two checks of the last element.
BSearchEnter ==
    /\ fpc \in {"call_start", "call_finish"}
    /\ LET ts == ordered_weather_timestamps
           t == search_timestamp
           first == 0
           last == Len(ts) - 1
       IN  /\ first_idx' = first
           /\ last_idx' = last
           /\ IF last < first
              THEN BSearchReturn(None, None)
              ELSE IF first = last
              THEN IF At(ts, first) = t
                   THEN BSearchReturn(first, last)
                   ELSE IF At(ts, first) < t
                   THEN BSearchReturn(first, None)
                   ELSE BSearchReturn(None, last)
              ELSE IF At(ts, last) = t
              THEN BSearchReturn(last, last)
              ELSE IF At(ts, last) < t
              THEN BSearchReturn(last, None)
              ELSE /\ fpc' = IF fpc = "call_start" THEN "loop_start"
                                                   ELSE "loop_finish"
                   /\ UNCHANGED <<min_start_index, max_start_index,
                                  min_finish_index, max_finish_index>>
    /\ UNCHANGED <<ordered_weather_ids, ordered_weather_timestamps, start_ts,
                   finish_ts, weather_pair>>
    /\ UNCHANGED othersThanBracket

\* BSearchLoop as it would be if the loop went on until the window is empty
BSearchLoop_UntilEmpty ==
    /\ fpc \in {"loop_start", "loop_finish"}
    /\ LET ts == ordered_weather_timestamps
           t == search_timestamp
           mid_idx == (first_idx + last_idx) \div 2
           first == IF At(ts, mid_idx) < t THEN mid_idx ELSE first_idx
           last == IF At(ts, mid_idx) < t THEN last_idx ELSE mid_idx
       IN  IF At(ts, mid_idx) = t
           THEN /\ BSearchReturn(mid_idx, mid_idx)
                /\ UNCHANGED <<first_idx, last_idx>>
           ELSE /\ first_idx' = first
                /\ last_idx' = last
                /\ IF last - first <= 0
                   THEN BSearchReturn(
                            IF At(ts, first) < t THEN first ELSE None,
                            IF At(ts, last) > t THEN last ELSE None)
                   ELSE UNCHANGED <<min_start_index, max_start_index,
                                    min_finish_index, max_finish_index, fpc>>
    /\ UNCHANGED <<ordered_weather_ids, ordered_weather_timestamps, start_ts,
                   finish_ts, weather_pair>>
    /\ UNCHANGED othersThanBracket

\* One iteration of b_search's "while True" loop.
BSearchLoop ==
    /\ fpc \in {"loop_start", "loop_finish"}
    /\ LET ts == ordered_weather_timestamps
           t == search_timestamp
           mid_idx == (first_idx + last_idx) \div 2
           first == IF At(ts, mid_idx) < t THEN mid_idx ELSE first_idx
           last == IF At(ts, mid_idx) < t THEN last_idx ELSE mid_idx
       IN  IF At(ts, mid_idx) = t
           THEN /\ BSearchReturn(mid_idx, mid_idx)
                /\ UNCHANGED <<first_idx, last_idx>>
           ELSE /\ first_idx' = first
                /\ last_idx' = last
                /\ IF last - first <= 1
                   THEN BSearchReturn(
                            IF At(ts, first) < t THEN first ELSE None,
                            IF At(ts, last) > t THEN last ELSE None)
                   ELSE UNCHANGED <<min_start_index, max_start_index,
                                    min_finish_index, max_finish_index, fpc>>
    /\ UNCHANGED <<ordered_weather_ids, ordered_weather_timestamps, start_ts,
                   finish_ts, weather_pair>>
    /\ UNCHANGED othersThanBracket

\* StartIndex as it would be if the closest reading were not looked for.
StartIndex_Bracketing == min_start_index

\* The index find_file_weather_ids keeps for the start of the window.
StartIndex ==
    IF Abs(start_ts - At(ordered_weather_timestamps, min_start_index)) >
       Abs(start_ts - At(ordered_weather_timestamps, max_start_index))
    THEN max_start_index
    ELSE min_start_index

\* The index find_file_weather_ids keeps for the finish of the window.
FinishIndex ==
    IF Abs(finish_ts - At(ordered_weather_timestamps, min_finish_index)) <
       Abs(finish_ts - At(ordered_weather_timestamps, max_finish_index))
    THEN min_finish_index
    ELSE max_finish_index

\* WindowInverted as it would be with the finish's upper index.
WindowInverted_UpperFinish == min_start_index > max_finish_index

\* The check that aborts on a window the code takes for inverted.
WindowInverted == min_start_index > min_finish_index

\* find_file_weather_ids after its two searches: the two raises, the choice
\* of the closest readings and the return.
FindFileWeatherIds ==
    /\ fpc = "check"
    /\ IF None \in {min_start_index, max_start_index,
                    min_finish_index, max_finish_index}
       THEN /\ fpc' = "raised_no_weather"
            /\ UNCHANGED weather_pair
       ELSE IF WindowInverted
       THEN /\ fpc' = "raised_wrong"
            /\ UNCHANGED weather_pair
       ELSE /\ fpc' = "returned"
            /\ weather_pair' = <<At(ordered_weather_ids, StartIndex),
                                 At(ordered_weather_ids, FinishIndex)>>
    /\ UNCHANGED <<ordered_weather_ids, ordered_weather_timestamps, start_ts,
                   finish_ts, first_idx, last_idx, min_start_index,
                   max_start_index, min_finish_index, max_finish_index>>
    /\ UNCHANGED othersThanBracket

NextBracket == BSearchEnter \/ BSearchLoop \/ FindFileWeatherIds

SpecBracket == InitBracket /\ [][NextBracket]_vars

\* the interpreter runs the function's next statement as long as there is
\* one
SpecBracketRuns == SpecBracket /\ WF_vars(NextBracket)

----------------------------------------------------------------------------
(* get_save_weather (src/generate.py 1398-1474) and                        *)
(* get_ordered_weather_ids_timestamps (1477-1490)                          *)

WeatherDates == 1..MaxWeatherDates

TicksPerDay == MaxTick + 1

\* A reading's timestamp string is <<day, tick>>: the day it was taken and
\* the time of day.  The readings filed under a day carry that day.

\* make_timestamp_instance: the timestamp string as a point in time.
make_timestamp_instance(timestamp_string) ==
    timestamp_string[1] * TicksPerDay + timestamp_string[2]

IsInjective(s) == \A i, j \in DOMAIN s : i # j => s[i] # s[j]

\* The key orders a dict of dates can have.  get_experiments_by_dates fills
\* it from a set of strings (lines 496-502), whose iteration order is any.
DateOrders ==
    {s \in SeqsUpTo(WeatherDates, MaxWeatherDates) : IsInjective(s)}

\* globus_get_all_weather's results: a day with no weather file has no key,
\* any other day has the readings of its files in file order (their times
\* of day, no two of them equal).
AllWeathers(days) ==
    UNION {[present -> {s \in SeqsUpTo(0..MaxTick, MaxReadings) :
                           IsInjective(s)}] :
              present \in SUBSET days}

Range(s) == {s[i] : i \in DOMAIN s}

\* The state when get_save_weather enters its loop over the dates.
InitWeather ==
    /\ date_experiment_ids \in DateOrders
    /\ all_weather \in AllWeathers(Range(date_experiment_ids))
    /\ weather_timestamps = <<>>
    /\ weather_id = 1
    /\ date_pos = 1
    /\ reading_pos = 1
    /\ problems_found = FALSE
    /\ ordered_weather = <<>>
    /\ wpc = "loop"
    /\ IdleBracket
    /\ IdleGenerate
    /\ IdleRange
    /\ IdleDates
    /\ IdleDiscovery
    /\ IdlePlot
    /\ IdleMap
    /\ IdleExperiments
    /\ IdleViews
    /\ IdleByDates

one_date == date_experiment_ids[date_pos]

\* "if one_date not in all_weather": the date is skipped and remembered.
SaveWeatherMissingDate ==
    /\ wpc = "loop"
    /\ date_pos <= Len(date_experiment_ids)
    /\ one_date \notin DOMAIN all_weather
    /\ problems_found' = TRUE
    /\ date_pos' = date_pos + 1
    /\ UNCHANGED <<date_experiment_ids, all_weather, weather_timestamps,
                   weather_id, reading_pos, ordered_weather, wpc>>
    /\ UNCHANGED othersThanWeather

\* One pass of the inner loop: the reading is inserted under the next id.
SaveWeatherInsert ==
    /\ wpc = "loop"
    /\ date_pos <= Len(date_experiment_ids)
    /\ one_date \in DOMAIN all_weather
    /\ reading_pos <= Len(all_weather[one_date])
    /\ LET one_weather == <<one_date, all_weather[one_date][reading_pos]>>
       IN  weather_timestamps' =
               Append(weather_timestamps, make_timestamp_instance(one_weather))
    /\ weather_id' = weather_id + 1
    /\ reading_pos' = reading_pos + 1
    /\ UNCHANGED <<date_experiment_ids, all_weather, date_pos, problems_found,
                   ordered_weather, wpc>>
    /\ UNCHANGED othersThanWeather

\* The readings of the date are exhausted: on to the next date.
SaveWeatherNextDate ==
    /\ wpc = "loop"
    /\ date_pos <= Len(date_experiment_ids)
    /\ one_date \in DOMAIN all_weather
    /\ reading_pos > Len(all_weather[one_date])
    /\ date_pos' = date_pos + 1
    /\ reading_pos' = 1
    /\ UNCHANGED <<date_experiment_ids, all_weather, weather_timestamps,
                   weather_id, problems_found, ordered_weather, wpc>>
    /\ UNCHANGED othersThanWeather

\* After the loop: the index, the commit, and the raise for a missing date.
SaveWeatherFinish ==
    /\ wpc = "loop"
    /\ date_pos > Len(date_experiment_ids)
    /\ wpc' = IF problems_found THEN "raised" ELSE "returned"
    /\ UNCHANGED <<date_experiment_ids, all_weather, weather_timestamps,
                   weather_id, date_pos, reading_pos, problems_found,
                   ordered_weather>>
    /\ UNCHANGED othersThanWeather

\* get_ordered_weather_ids_timestamps: the keys and the values of the dict,
\* each sorted on its own.
GetOrderedWeatherIdsTimestamps ==
    /\ wpc = "returned"
    /\ LET ids == [i \in 1..Len(weather_timestamps) |-> i]
           tss == weather_timestamps
       IN  ordered_weather' = <<SortSeq(ids, <), SortSeq(tss, <)>>
    /\ wpc' = "ordered"
    /\ UNCHANGED <<date_experiment_ids, all_weather, weather_timestamps,
                   weather_id, date_pos, reading_pos, problems_found>>
    /\ UNCHANGED othersThanWeather

NextWeather ==
    \/ SaveWeatherMissingDate
    \/ SaveWeatherInsert
    \/ SaveWeatherNextDate
    \/ SaveWeatherFinish
    \/ GetOrderedWeatherIdsTimestamps

SpecWeather == InitWeather /\ [][NextWeather]_vars

----------------------------------------------------------------------------
(* generate (src/generate.py 1871-1943)                                    *)

\* The state when generate enters its try block: the arguments are parsed,
\* mkstemp has created the working file and sqlite3 has opened it.  The
\* output file may exist from an earlier run.
InitGenerate ==
    /\ gene_marker_file \in BOOLEAN
    /\ cultivar_gene_map_file \in BOOLEAN
    /\ working_file = TRUE
    /\ output_file \in {"absent", "previous"}
    /\ tables = {}
    /\ raised = "none"
    /\ gpc = "authorize"
    /\ IdleBracket
    /\ IdleWeather
    /\ IdleRange
    /\ IdleDates
    /\ IdleDiscovery
    /\ IdlePlot
    /\ IdleMap
    /\ IdleExperiments
    /\ IdleViews
    /\ IdleByDates

\* One call of the try block: it returns, and generate goes on to the next
\* call, or it raises, and generate goes to its finally clause.  A call that
\* raises may have created and committed its table before.
StageRuns(stage, made, next) ==
    /\ \/ /\ tables' = tables \cup made
          /\ gpc' = next
          /\ UNCHANGED raised
       \/ /\ tables' \in {tables, tables \cup made}
          /\ raised' = stage
          /\ gpc' = "finally"
    /\ UNCHANGED <<gene_marker_file, cultivar_gene_map_file, working_file,
                   output_file>>
    /\ UNCHANGED othersThanGenerate

\* A call the arguments switch off.
StageSkipped(stage, next) ==
    /\ gpc' = next
    /\ UNCHANGED <<gene_marker_file, cultivar_gene_map_file, working_file,
                   output_file, tables, raised>>
    /\ UNCHANGED othersThanGenerate

GenerateAuthorize ==
    /\ gpc = "authorize"
    /\ StageRuns("authorize", {}, "experiments")

\* get_save_experiments; a None result fails to unpack, which raises too.
GenerateExperiments ==
    /\ gpc = "experiments"
    /\ StageRuns("experiments", {"season_info"}, "cultivars")

GenerateCultivars ==
    /\ gpc = "cultivars"
    /\ StageRuns("cultivars", {"cultivars"}, "files")

GenerateFiles ==
    /\ gpc = "files"
    /\ StageRuns("files", {"files"}, "weather")

GenerateWeather ==
    /\ gpc = "weather"
    /\ StageRuns("weather", {"weather"}, "weather_file_map")

GenerateWeatherFiles ==
    /\ gpc = "weather_file_map"
    /\ StageRuns("weather_file_map", {"weather_file_map"}, "gene_markers")

GenerateGeneMarkers ==
    /\ gpc = "gene_markers"
    /\ IF gene_marker_file
       THEN StageRuns("gene_markers", {"gene_markers"}, "cultivar_genes")
       ELSE StageSkipped("gene_markers", "cultivar_genes")

GenerateCultivarGenes ==
    /\ gpc = "cultivar_genes"
    /\ IF cultivar_gene_map_file
       THEN StageRuns("cultivar_genes", {"cultivar_genes"}, "views")
       ELSE StageSkipped("cultivar_genes", "views")

GenerateViews ==
    /\ gpc = "views"
    /\ StageRuns("views", {"cultivar_files", "weather_files", "unified"},
                 "move")

\* shutil.move(working_filename, args.output_file): the working file becomes
\* the output file.  A move that raises leaves the working file, and may
\* have begun to write the destination (a copy across file systems).
GenerateMove ==
    /\ gpc = "move"
    /\ \/ /\ output_file' = "published"
          /\ working_file' = FALSE
          /\ UNCHANGED raised
       \/ /\ output_file' \in {output_file, "partial"}
          /\ raised' = "move"
          /\ UNCHANGED working_file
    /\ gpc' = "finally"
    /\ UNCHANGED <<gene_marker_file, cultivar_gene_map_file, tables>>
    /\ UNCHANGED othersThanGenerate

\* GenerateFinally as it would be without the unlink of the working file.
GenerateFinally_NoUnlink ==
    /\ gpc = "finally"
    /\ gpc' = IF raised = "none" THEN "done" ELSE "failed"
    /\ UNCHANGED <<gene_marker_file, cultivar_gene_map_file, output_file,
                   tables, raised, working_file>>
    /\ UNCHANGED othersThanGenerate

\* The finally clause: the connection is closed and the working file, if it
\* is still there, is unlinked; an exception goes on to the caller.
GenerateFinally ==
    /\ gpc = "finally"
    /\ working_file' = FALSE
    /\ gpc' = IF raised = "none" THEN "done" ELSE "failed"
    /\ UNCHANGED <<gene_marker_file, cultivar_gene_map_file, output_file,
                   tables, raised>>
    /\ UNCHANGED othersThanGenerate

NextGenerate ==
    \/ GenerateAuthorize
    \/ GenerateExperiments
    \/ GenerateCultivars
    \/ GenerateFiles
    \/ GenerateWeather
    \/ GenerateWeatherFiles
    \/ GenerateGeneMarkers
    \/ GenerateCultivarGenes
    \/ GenerateViews
    \/ GenerateMove
    \/ GenerateFinally

SpecGenerate == InitGenerate /\ [][NextGenerate]_vars

----------------------------------------------------------------------------
(* validate_date (src/generate.py 301-315), generate_dates (318-340)       *)
(*                                                                         *)
(* A date string is <<year, month, day, width>>: its three numbers, and    *)
(* width 1 when month and day are written with two digits ("2020-03-01")   *)
(* or 0 when they are not ("2020-3-1").  The empty string is <<>>.  A      *)
(* datetime is the number of its day, counted as the datetime module       *)
(* counts days (toordinal): comparison and the addition of a timedelta     *)
(* work on that number.                                                    *)

IsLeap(y) == (y % 4 = 0 /\ y % 100 # 0) \/ y % 400 = 0

DaysInMonth(y, m) ==
    IF m = 2 THEN (IF IsLeap(y) THEN 29 ELSE 28)
    ELSE IF m \in {4, 6, 9, 11} THEN 30
    ELSE 31

IsCalendarDate(y, m, d) == m \in 1..12 /\ d \in 1..DaysInMonth(y, m)

DaysBeforeYear(y) ==
    (y - 1) * 365 + (y - 1) \div 4 - (y - 1) \div 100 + (y - 1) \div 400

DaysBeforeMonth(y, m) ==
    <<0, 31, 59, 90, 120, 151, 181, 212, 243, 273, 304, 334>>[m]
        + (IF m > 2 /\ IsLeap(y) THEN 1 ELSE 0)

ToOrdinal(y, m, d) == DaysBeforeYear(y) + DaysBeforeMonth(y, m) + d

FromOrdinal(n) ==
    LET y == CHOOSE yy \in (FirstYear - 1)..(FirstYear + 2) :
                 DaysBeforeYear(yy) < n /\ n <= DaysBeforeYear(yy + 1)
        m == CHOOSE mm \in 1..12 :
                 /\ DaysBeforeMonth(y, mm) < n - DaysBeforeYear(y)
                 /\ n - DaysBeforeYear(y)
                        <= DaysBeforeMonth(y, mm) + DaysInMonth(y, mm)
    IN  <<y, m, n - DaysBeforeYear(y) - DaysBeforeMonth(y, m)>>

\* datetime.strptime(date, "%Y-%m-%d") and dateutil's parse raise ValueError
\* unless the string names a day of the calendar; both take either width.
Parses(date) ==
    /\ Len(date) = 4
    /\ IsCalendarDate(date[1], date[2], date[3])

parse(date) == ToOrdinal(date[1], date[2], date[3])

\* datetime.strftime("%Y-%m-%d"): always two digits.
strftime(dt) == FromOrdinal(dt) \o <<1>>

validate_date(date) == Parses(date) /\ date = strftime(parse(date))

\* generate_dates' loop: "while cur_date <= last", one day added each time
DatesLoop(first, last) ==
    [k \in 1..(last - first + 1) |-> strftime(first + (k - 1))]

\* generate_dates without the swap of its arguments
generate_dates_NoSwap(first_arg, second_arg) ==
    DatesLoop(parse(first_arg), parse(second_arg))

generate_dates(first_arg, second_arg) ==
    LET first_date == parse(first_arg)
        second_date == parse(second_arg)
        first == IF first_date < second_date THEN first_date ELSE second_date
        last == IF first_date < second_date THEN second_date ELSE first_date
    IN  DatesLoop(first, last)

\* The dates generate_dates is called with: the first and last days of the
\* months of one winter, December of FirstYear to March, in two-digit form.
RangeDates ==
    {date \in (FirstYear..(FirstYear + 1)) \X (1..12) \X (1..31) \X {1} :
        /\ IsCalendarDate(date[1], date[2], date[3])
        /\ \/ date[1] = FirstYear /\ date[2] = 12
           \/ date[1] = FirstYear + 1 /\ date[2] <= 3
        /\ (date[3] <= EdgeDays \/ date[3] >= 28)}

InitRange ==
    /\ start_date \in RangeDates
    /\ last_date \in RangeDates
    /\ range_dates = <<>>
    /\ rpc = "call"
    /\ IdleBracket
    /\ IdleWeather
    /\ IdleGenerate
    /\ IdleDates
    /\ IdleDiscovery
    /\ IdlePlot
    /\ IdleMap
    /\ IdleExperiments
    /\ IdleViews
    /\ IdleByDates

GenerateDates ==
    /\ rpc = "call"
    /\ range_dates' = generate_dates(start_date, last_date)
    /\ rpc' = "returned"
    /\ UNCHANGED <<start_date, last_date>>
    /\ UNCHANGED othersThanRange

NextRange == GenerateDates

SpecRange == InitRange /\ [][NextRange]_vars

----------------------------------------------------------------------------
(* prepare_dates (src/generate.py 343-391)                                 *)
(*                                                                         *)
(* dates_arg.split(',') is a list of at least one item.  An item is kept   *)
(* as the list one_item.split(':') would give: one part when the item has  *)
(* no colon, n + 1 parts when it has n.  A part is its text with the       *)
(* surrounding white space recorded apart: pad says there is some.         *)

strip(part) == part.text

ValidText == <<FirstYear + 1, 2, 28, 1>>
LaterText == <<FirstYear + 1, 3, 1, 1>>
NoSuchDayText == <<FirstYear + 1, 2, 30, 1>>
OneDigitText == <<FirstYear + 1, 3, 1, 0>>

Parts ==
    {[pad |-> FALSE, text |-> t] :
        t \in {<<>>, ValidText, LaterText, NoSuchDayText, OneDigitText}}
    \cup {[pad |-> TRUE, text |-> <<>>]}

Items == UNION {[1..k -> Parts] : k \in 1..(MaxColons + 1)}

InitDates ==
    /\ all_dates \in UNION {[1..k -> Items] : k \in 1..MaxItems}
    /\ item_pos = 1
    /\ dates = <<>>
    /\ problems = FALSE
    /\ dpc = "loop"
    /\ IdleBracket
    /\ IdleWeather
    /\ IdleGenerate
    /\ IdleRange
    /\ IdleDiscovery
    /\ IdlePlot
    /\ IdleMap
    /\ IdleExperiments
    /\ IdleViews
    /\ IdleByDates

\* one pass of "for one_item in all_dates"
PrepareDatesItem ==
    /\ dpc = "loop"
    /\ item_pos <= Len(all_dates)
    /\ LET one_item == all_dates[item_pos]
           item_first == one_item[1]
           item_last == one_item[Len(one_item)]
           cur_date == strip(item_first)
           cur_start == strip(item_first)
           cur_last == strip(item_last)
       IN  IF Len(one_item) > 2
           THEN \* first_date, last_date = one_item.split(':') cannot unpack
                /\ dpc' = "ValueError"
                /\ UNCHANGED <<item_pos, dates, problems>>
           ELSE /\ dpc' = dpc
                /\ item_pos' = item_pos + 1
                /\ IF item_first = item_last
                   THEN IF cur_date = <<>>
                        THEN UNCHANGED <<dates, problems>>
                        ELSE IF validate_date(cur_date)
                        THEN /\ dates' = Append(dates, cur_date)
                             /\ UNCHANGED problems
                        ELSE /\ problems' = TRUE
                             /\ UNCHANGED dates
                   ELSE IF cur_start = <<>> \/ cur_last = <<>>
                        THEN /\ problems' = TRUE
                             /\ UNCHANGED dates
                        ELSE IF ~validate_date(cur_start)
                                \/ ~validate_date(cur_last)
                        THEN /\ problems' = TRUE
                             /\ UNCHANGED dates
                        ELSE /\ dates' = dates
                                    \o generate_dates(cur_start, cur_last)
                             /\ UNCHANGED problems
    /\ UNCHANGED all_dates
    /\ UNCHANGED othersThanDates

\* after the loop: "if problems: raise RuntimeError", else the tuple
PrepareDatesFinish ==
    /\ dpc = "loop"
    /\ item_pos > Len(all_dates)
    /\ dpc' = IF problems THEN "RuntimeError" ELSE "returned"
    /\ UNCHANGED <<all_dates, item_pos, dates, problems>>
    /\ UNCHANGED othersThanDates

NextDates == PrepareDatesItem \/ PrepareDatesFinish

SpecDates == InitDates /\ [][NextDates]_vars

----------------------------------------------------------------------------
(* globus_get_files_info (src/generate.py 814-881), globus_get_files_details *)
(* (884-966), globus_get_files (1049-1116), globus_get_save_files           *)
(* (1180-1271), for one sensor with a metadata file mapper.                 *)
(*                                                                         *)
(* A folder is <<date, entry>>: the entry-th entry of the date's folder;   *)
(* <<0, token>> is the raw data folder the mapper derives from a file      *)
(* name's timestamp token.  A file name is its position in the folder's    *)
(* listing.  A path is [dir, name]; dir is <<>> for a bare file name.      *)
(* Every sidecar that is retrieved holds the gantry's time and position.   *)

\* the batch threshold: "if len(download_file_list) >= 10"
BatchSize == 10

NoJson == [dir |-> <<>>, name |-> None]

\* os.path.join(directory, path): an absolute path is kept as it is
Join(directory, path) ==
    IF path.dir # <<>> THEN path ELSE [dir |-> directory, name |-> path.name]

\* The entries operation_ls gives for a capture folder: a sidecar (its name
\* ends with "_metadata.json"), a data file with an accepted extension, whose
\* name holds the timestamp token (0: none), or a file with another extension.
SidecarEntry == [kind |-> "sidecar", token |-> 0]
DataEntry(t) == [kind |-> "data", token |-> t]
OtherEntry == [kind |-> "other", token |-> 0]

MixedEntries == {DataEntry(t) : t \in 0..MaxToken} \cup {OtherEntry}

FolderListings ==
    {[k \in 1..n |-> SidecarEntry] \o files :
        n \in 0..MaxSidecars,
        files \in SeqsUpTo(MixedEntries, MaxMixed)
                      \cup {[k \in 1..BulkFiles |-> DataEntry(1)]}}

\* _map_rgb_file_to_metadata: None when the name holds no timestamp, else
\* the path of the sidecar in the raw data folder of that timestamp
metadata_file_mapper(one_file) ==
    IF one_file.token = 0 THEN NoJson
    ELSE [dir |-> <<0, one_file.token>>, name |-> 0]

FileId(one_file) == <<one_file.directory, one_file.filename>>

\* the second loop of globus_get_files_info: "for one_file in file_details",
\* with json_file and missing_json_files carried from file to file
RECURSIVE FillInJson(_, _, _, _, _)
FillInJson(file_details, k, json_file, missing_json_files, none_for) ==
    IF k > Len(file_details)
    THEN [file_details |-> file_details,
          missing_json_files |-> missing_json_files,
          none_for |-> none_for]
    ELSE LET one_file == file_details[k]
             mapped == IF json_file = NoJson
                       THEN metadata_file_mapper(one_file)
                       ELSE json_file
         IN  IF one_file.kind = "sidecar"
             THEN FillInJson(file_details, k + 1, json_file,
                             missing_json_files, none_for)
             ELSE FillInJson(
                      IF mapped # NoJson
                      THEN [file_details EXCEPT ![k].json_file = mapped]
                      ELSE file_details,
                      k + 1, mapped,
                      missing_json_files \/ mapped = NoJson,
                      IF mapped = NoJson THEN none_for \cup {FileId(one_file)}
                      ELSE none_for)

\* globus_get_files_info: file_details empty stands for "return None";
\* raised says that RuntimeWarning("Missing metadata JSON files") is raised
globus_get_files_info(files_path, listing) ==
    LET file_info(k) == [directory |-> files_path, filename |-> k,
                         kind |-> listing[k].kind, token |-> listing[k].token,
                         json_file |-> NoJson, details |-> FALSE]
        Kept(one_file) == one_file.kind # "other"
        file_details == SelectSeq([k \in 1..Len(listing) |-> file_info(k)],
                                  Kept)
        sidecars == {k \in 1..Len(listing) : listing[k].kind = "sidecar"}
        json_file == IF sidecars = {} THEN NoJson
                     ELSE [dir |-> <<>>,
                           name |-> CHOOSE k \in sidecars :
                                        \A j \in sidecars : j <= k]
        filled == FillInJson(file_details, 1, json_file, FALSE, {})
    IN  [file_details |-> filled.file_details,
         raised |-> filled.missing_json_files,
         none_for |-> filled.none_for]

\* globus_get_files_details' second loop over one date's records: a record
\* without json_file is passed on as it is, the others get the details
globus_get_files_details(file_list) ==
    [k \in 1..Len(file_list) |->
        IF file_list[k].json_file = NoJson THEN file_list[k]
        ELSE [file_list[k] EXCEPT !.details = TRUE]]

WalkDates == 1..MaxWalkDates

\* found_files updated with new_details
MergeDetails ==
    [d \in WalkDates |->
        found_files[d] \o globus_get_files_details(working_file_set[d])]

\* "for one_file in cur_files": the paths added to download_file_list
RECURSIVE AddDownloads(_, _, _)
AddDownloads(download_list, cur_files, k) ==
    IF k > Len(cur_files) THEN download_list
    ELSE LET one_file == cur_files[k]
         IN  IF /\ one_file.json_file # NoJson
                /\ one_file.json_file \notin Range(download_list)
             THEN AddDownloads(
                      Append(download_list,
                             Join(one_file.directory, one_file.json_file)),
                      cur_files, k + 1)
             ELSE AddDownloads(download_list, cur_files, k + 1)

NoRecords == [d \in WalkDates |-> <<>>]

InitDiscovery ==
    /\ found_files = NoRecords
    /\ working_file_set = NoRecords
    /\ download_file_list = <<>>
    /\ walk_date = 1
    /\ num_entries = 0
    /\ entry_no = 1
    /\ files_info_made = {}
    /\ mapper_gave_none = {}
    /\ files_rows = <<>>
    /\ tpc = "list_date"
    /\ IdleBracket
    /\ IdleWeather
    /\ IdleGenerate
    /\ IdleRange
    /\ IdleDates
    /\ IdlePlot
    /\ IdleMap
    /\ IdleExperiments
    /\ IdleViews
    /\ IdleByDates

\* the handler of TransferAPIError as it would be if it raised again
ListingFailed_Raises ==
    /\ num_entries' = None
    /\ tpc' = "TransferAPIError"
    /\ UNCHANGED <<walk_date, entry_no>>

\* "except globus_sdk.exc.TransferAPIError": path_contents is still None,
\* the error is logged and "continue" goes to the next date
ListingFailed ==
    /\ num_entries' = None
    /\ walk_date' = walk_date + 1
    /\ UNCHANGED <<entry_no, tpc>>

\* "for one_date in date_experiment_ids.keys()": the date's folder is
\* listed, with or without success
WalkListDate ==
    /\ tpc = "list_date"
    /\ walk_date <= MaxWalkDates
    /\ \/ ListingFailed
       \/ \E n \in 0..MaxEntries :
              /\ num_entries' = n
              /\ entry_no' = 1
              /\ IF n = 0
                 THEN walk_date' = walk_date + 1 /\ UNCHANGED tpc
                 ELSE tpc' = "entry" /\ UNCHANGED walk_date
    /\ UNCHANGED <<found_files, working_file_set, download_file_list,
                   files_info_made, mapper_gave_none, files_rows>>
    /\ UNCHANGED othersThanDiscovery

\* "for one_entry in path_contents", up to the threshold test: an entry that
\* is not a folder is passed over, a folder is listed by globus_get_files_info
WalkEntry ==
    /\ tpc = "entry"
    /\ \/ /\ tpc' = "threshold"
          /\ UNCHANGED <<working_file_set, download_file_list,
                         files_info_made, mapper_gave_none>>
       \/ \E listing \in FolderListings :
              LET sub_path == <<walk_date, entry_no>>
                  info == globus_get_files_info(sub_path, listing)
                  cur_files == info.file_details
              IN  /\ mapper_gave_none' = mapper_gave_none \cup info.none_for
                  /\ IF info.raised
                     THEN /\ tpc' = "RuntimeWarning"
                          /\ UNCHANGED <<working_file_set, download_file_list,
                                         files_info_made>>
                     ELSE /\ tpc' = "threshold"
                          /\ files_info_made' = files_info_made \cup
                                 {FileId(cur_files[k]) :
                                     k \in 1..Len(cur_files)}
                          /\ working_file_set' =
                                 [working_file_set EXCEPT
                                     ![walk_date] = @ \o cur_files]
                          /\ download_file_list' =
                                 AddDownloads(download_file_list, cur_files, 1)
    /\ UNCHANGED <<found_files, walk_date, num_entries, entry_no, files_rows>>
    /\ UNCHANGED othersThanDiscovery

\* the end of one pass of "for one_entry in path_contents"
NextEntry ==
    IF entry_no < num_entries
    THEN /\ entry_no' = entry_no + 1
         /\ tpc' = "entry"
         /\ UNCHANGED walk_date
    ELSE /\ walk_date' = walk_date + 1
         /\ tpc' = "list_date"
         /\ UNCHANGED entry_no

\* "if len(download_file_list) >= 10": the details are retrieved, unless the
\* transfer fails (RuntimeError), and the two collections start again
WalkThreshold ==
    /\ tpc = "threshold"
    /\ IF Len(download_file_list) >= BatchSize
       THEN \/ /\ found_files' = MergeDetails
               /\ working_file_set' = NoRecords
               /\ download_file_list' = <<>>
               /\ NextEntry
            \/ /\ tpc' = "RuntimeError"
               /\ UNCHANGED <<found_files, working_file_set,
                              download_file_list, walk_date, entry_no>>
       ELSE /\ NextEntry
            /\ UNCHANGED <<found_files, working_file_set, download_file_list>>
    /\ UNCHANGED <<num_entries, files_info_made, mapper_gave_none, files_rows>>
    /\ UNCHANGED othersThanDiscovery

\* after the last date: "if len(download_file_list) > 0" the details of what
\* is left are retrieved; found_files is returned
WalkReturn ==
    /\ tpc = "list_date"
    /\ walk_date > MaxWalkDates
    /\ IF Len(download_file_list) > 0
       THEN \/ /\ found_files' = MergeDetails
               /\ tpc' = "returned"
            \/ /\ tpc' = "RuntimeError"
               /\ UNCHANGED found_files
       ELSE /\ tpc' = "returned"
            /\ UNCHANGED found_files
    /\ UNCHANGED <<working_file_set, download_file_list, walk_date,
                   num_entries, entry_no, files_info_made, mapper_gave_none,
                   files_rows>>
    /\ UNCHANGED othersThanDiscovery

RECURSIVE AllFound(_)
AllFound(d) ==
    IF d > MaxWalkDates THEN <<>> ELSE found_files[d] \o AllFound(d + 1)

\* globus_get_save_files' insert loop: a record is inserted as one row;
\* one_file['start_time'] and the four keys after it exist only in a record
\* that got its details, for any other record the lookup raises KeyError
SaveFiles ==
    /\ tpc = "returned"
    /\ LET date_files == AllFound(1)
           without == {k \in 1..Len(date_files) : ~date_files[k].details}
           inserted == IF without = {} THEN Len(date_files)
                       ELSE (CHOOSE k \in without :
                                 \A j \in without : k <= j) - 1
       IN  /\ files_rows' =
                  [file_id \in 1..inserted |->
                      [id |-> file_id,
                       folder |-> date_files[file_id].directory,
                       filename |-> date_files[file_id].filename]]
           /\ tpc' = IF without = {} THEN "saved" ELSE "KeyError"
    /\ UNCHANGED <<found_files, working_file_set, download_file_list,
                   walk_date, num_entries, entry_no, files_info_made,
                   mapper_gave_none>>
    /\ UNCHANGED othersThanDiscovery

NextDiscovery ==
    \/ WalkListDate
    \/ WalkEntry
    \/ WalkThreshold
    \/ WalkReturn
    \/ SaveFiles

SpecDiscovery == InitDiscovery /\ [][NextDiscovery]_vars

----------------------------------------------------------------------------
(* map_file_to_plot_id (src/generate.py 1152-1177)                         *)
(*                                                                         *)
(* A season is [id, sites]; a site is [id, sitename], with sitename None   *)
(* when the site has no 'sitename' key.  Site names and path segments are  *)
(* numbers.  The sites of a list of seasons have distinct ids: the site at *)
(* position j of the season at position k has id (k - 1) * MaxSites + j.   *)

SiteNames == 1..MaxSiteName

SeasonIds == 1..MaxSeasonId

Seasons ==
    {[k \in 1..Len(shape) |->
         [id |-> shape[k][1],
          sites |-> [j \in 1..Len(shape[k][2]) |->
                        [id |-> (k - 1) * MaxSites + j,
                         sitename |-> shape[k][2][j]]]]] :
        shape \in SeqsUpTo(SeasonIds \X SeqsUpTo(SiteNames \cup {None},
                                                 MaxSites),
                           MaxSeasons)}

\* "for one_site in one_season['sites']": the id of the first site whose
\* sitename is a segment of the path (the loop breaks there), else found
RECURSIVE SitesLoop(_, _, _, _)
SitesLoop(sites, j, parts, found) ==
    IF j > Len(sites) THEN found
    ELSE IF sites[j].sitename = None THEN SitesLoop(sites, j + 1, parts, found)
    ELSE IF sites[j].sitename \in parts THEN sites[j].id
    ELSE SitesLoop(sites, j + 1, parts, found)

\* "for one_season in seasons": the break of the inner loop leaves the
\* outer loop running
RECURSIVE SeasonsLoop(_, _, _, _, _)
SeasonsLoop(all_seasons, k, parts, wanted, found) ==
    IF k > Len(all_seasons) THEN found
    ELSE IF all_seasons[k].id # wanted
    THEN SeasonsLoop(all_seasons, k + 1, parts, wanted, found)
    ELSE SeasonsLoop(all_seasons, k + 1, parts, wanted,
                     SitesLoop(all_seasons[k].sites, 1, parts, found))

\* the plot id map_file_to_plot_id returns; None stands for its RuntimeError
map_file_to_plot_id(parts, wanted, all_seasons) ==
    SeasonsLoop(all_seasons, 1, parts, wanted, None)

\* The call is made by globus_get_save_files while generate runs its files
\* stage: the working file exists, the two tables before are built.
InitPlot ==
    /\ file_parts \in SUBSET SiteNames
    /\ season_id \in SeasonIds
    /\ seasons \in Seasons
    /\ found_plot_id = None
    /\ ppc = "call"
    /\ gene_marker_file = FALSE
    /\ cultivar_gene_map_file = FALSE
    /\ working_file = TRUE
    /\ output_file \in {"absent", "previous"}
    /\ tables = {"season_info", "cultivars"}
    /\ raised = "none"
    /\ gpc = "files"
    /\ IdleBracket
    /\ IdleWeather
    /\ IdleRange
    /\ IdleDates
    /\ IdleDiscovery
    /\ IdleMap
    /\ IdleExperiments
    /\ IdleViews
    /\ IdleByDates

discoveryVarsButRows ==
    <<found_files, working_file_set, download_file_list, walk_date,
      num_entries, entry_no, files_info_made, mapper_gave_none, tpc>>

\* map_file_to_plot_id as it would be without its raise
MapFileToPlotId_NoRaise ==
    /\ ppc = "call"
    /\ found_plot_id' = map_file_to_plot_id(file_parts, season_id, seasons)
    /\ ppc' = "returned"
    /\ UNCHANGED <<file_parts, season_id, seasons>>
    /\ UNCHANGED othersThanPlot

MapFileToPlotId ==
    /\ ppc = "call"
    /\ found_plot_id' = map_file_to_plot_id(file_parts, season_id, seasons)
    /\ ppc' = IF found_plot_id' = None THEN "RuntimeError" ELSE "returned"
    /\ UNCHANGED <<file_parts, season_id, seasons>>
    /\ UNCHANGED othersThanPlot

\* globus_get_save_files: the file's row is inserted with the plot id
SaveFilesRow ==
    /\ ppc = "returned"
    /\ files_rows' = Append(files_rows,
                            [id |-> Len(files_rows) + 1,
                             plot_id |-> found_plot_id,
                             season_id |-> season_id])
    /\ ppc' = "inserted"
    /\ UNCHANGED <<file_parts, season_id, seasons, found_plot_id>>
    /\ UNCHANGED <<bracketVars, weatherVars, generateVars, rangeVars,
                   datesVars, discoveryVarsButRows, mapVars,
                   experimentsVars,
      viewsVars, byDatesVars>>

\* globus_get_save_files: "except Exception as ex: ... raise ex"; the
\* exception leaves the try block of generate
SaveFilesReraise ==
    /\ ppc = "RuntimeError"
    /\ gpc = "files"
    /\ ppc' = "reraised"
    /\ raised' = "files"
    /\ gpc' = "finally"
    /\ UNCHANGED <<file_parts, season_id, seasons, found_plot_id>>
    /\ UNCHANGED <<gene_marker_file, cultivar_gene_map_file, working_file,
                   output_file, tables>>
    /\ UNCHANGED <<bracketVars, weatherVars, rangeVars, datesVars,
                   discoveryVars, mapVars, experimentsVars,
      viewsVars, byDatesVars>>

NextPlot ==
    \/ MapFileToPlotId
    \/ SaveFilesRow
    \/ SaveFilesReraise
    \/ GenerateFinally

SpecPlot == InitPlot /\ [][NextPlot]_vars

----------------------------------------------------------------------------
(* create_weather_files_table (src/generate.py 1580-1624)                  *)
(*                                                                         *)
(* The loop over files_timestamps.items() calls find_file_weather_ids for  *)
(* each file: the call is the bracket's state machine, started again for   *)
(* every file.  The file ids are 1..n, in the order of the dict.           *)

MapTimestamps == 0..MaxMapTs

\* the bracket's variables at a call of find_file_weather_ids for one file
CallFindFileWeatherIds(window) ==
    /\ start_ts' = window[1]
    /\ finish_ts' = window[2]
    /\ first_idx' = 0
    /\ last_idx' = Len(ordered_weather_timestamps) - 1
    /\ min_start_index' = None
    /\ max_start_index' = None
    /\ min_finish_index' = None
    /\ max_finish_index' = None
    /\ weather_pair' = <<>>
    /\ fpc' = "call_start"

InitMap ==
    /\ ordered_weather_timestamps \in
           {s \in SeqsUpTo(MapTimestamps, MaxLen) : IsAscending(s)}
    /\ ordered_weather_ids = [i \in 1..Len(ordered_weather_timestamps) |-> i]
    /\ files_timestamps \in
           SeqsUpTo(MapTimestamps \X MapTimestamps, MaxMapFiles)
    /\ start_ts = 0
    /\ finish_ts = 0
    /\ first_idx = 0
    /\ last_idx = 0
    /\ min_start_index = None
    /\ max_start_index = None
    /\ min_finish_index = None
    /\ max_finish_index = None
    /\ weather_pair = <<>>
    /\ fpc = "idle"
    /\ map_file = 1
    /\ wf_id = 1
    /\ weather_file_map = <<>>
    /\ mpc = "loop"
    /\ IdleWeather
    /\ IdleGenerate
    /\ IdleRange
    /\ IdleDates
    /\ IdleDiscovery
    /\ IdlePlot
    /\ IdleExperiments
    /\ IdleViews
    /\ IdleByDates

\* "for file_id, file_start_finish_ts in files_timestamps.items()": the call
\* of find_file_weather_ids for the next file
MapNextFile ==
    /\ mpc = "loop"
    /\ map_file <= Len(files_timestamps)
    /\ CallFindFileWeatherIds(files_timestamps[map_file])
    /\ mpc' = "find"
    /\ UNCHANGED <<ordered_weather_ids, ordered_weather_timestamps>>
    /\ UNCHANGED <<files_timestamps, map_file, wf_id, weather_file_map>>
    /\ UNCHANGED <<weatherVars, generateVars, rangeVars, datesVars,
                   discoveryVars, plotVars, experimentsVars,
      viewsVars, byDatesVars>>

\* the call returned: the INSERT into weather_file_map, "wf_id += 1"
MapInsertRow ==
    /\ mpc = "find"
    /\ fpc = "returned"
    /\ weather_file_map' =
           Append(weather_file_map,
                  [id |-> wf_id, file_id |-> map_file,
                   min_weather_id |-> weather_pair[1],
                   max_weather_id |-> weather_pair[2]])
    /\ wf_id' = wf_id + 1
    /\ map_file' = map_file + 1
    /\ mpc' = "loop"
    /\ UNCHANGED files_timestamps
    /\ UNCHANGED othersThanMap

\* MapRaise as it would be if the loop went on to the next file
MapRaise_SkipsFile ==
    /\ mpc = "find"
    /\ fpc \in {"raised_no_weather", "raised_wrong"}
    /\ mpc' = "loop"
    /\ map_file' = map_file + 1
    /\ UNCHANGED <<files_timestamps, wf_id, weather_file_map>>
    /\ UNCHANGED othersThanMap

\* the call raised: nothing catches the RuntimeError
MapRaise ==
    /\ mpc = "find"
    /\ fpc \in {"raised_no_weather", "raised_wrong"}
    /\ mpc' = "RuntimeError"
    /\ UNCHANGED <<files_timestamps, map_file, wf_id, weather_file_map>>
    /\ UNCHANGED othersThanMap

\* after the loop: the indexes are created and the rows committed
MapFinish ==
    /\ mpc = "loop"
    /\ map_file > Len(files_timestamps)
    /\ mpc' = "done"
    /\ UNCHANGED <<files_timestamps, map_file, wf_id, weather_file_map>>
    /\ UNCHANGED othersThanMap

NextMap ==
    \/ MapNextFile
    \/ BSearchEnter
    \/ BSearchLoop
    \/ FindFileWeatherIds
    \/ MapInsertRow
    \/ MapRaise
    \/ MapFinish

SpecMap == InitMap /\ [][NextMap]_vars

----------------------------------------------------------------------------
(* match_cultivar_to_site_brapi (src/generate.py 604-622),                 *)
(* get_save_experiments (643-754), save_cultivars (757-788)                *)
(*                                                                         *)
(* The experiments of found_experiments are taken one after the other; the *)
(* id of an experiment is its position.  A site is [id, city], city being  *)
(* "absent" when the site has no 'city' key.  A BRAPI entry is             *)
(* [observationUnitDbId, germPlasmDbId]; observationUnitDbId is the number *)
(* its string spells, or None when the entry has no such key; the          *)
(* germplasm ids are the numbers the service spells in one way, so that    *)
(* two of them are equal in the list exactly when they are in the table.   *)

PLOT_INCLUSION_FILTERS == "Maricopa"

Sites ==
    [id : 1..MaxSiteId, city : {"Maricopa", "Elsewhere", "absent"}]

BrapiEntries ==
    [observationUnitDbId : (1..MaxSiteId) \cup {None},
     germPlasmDbId : 1..MaxGermplasm]

\* the inclusion filter: the key is there and has the required value
inclusion_match(cur_site) ==
    cur_site.city # "absent" /\ cur_site.city = PLOT_INCLUSION_FILTERS

\* the position of the entry match_cultivar_to_site_brapi returns: the first
\* one whose observationUnitDbId is str(site_id); 0 stands for None
match_cultivar_to_site_brapi(site_id, all_cultivars) ==
    LET found == {k \in 1..Len(all_cultivars) :
                     /\ all_cultivars[k].observationUnitDbId # None
                     /\ all_cultivars[k].observationUnitDbId = site_id}
    IN  IF found = {} THEN 0
        ELSE CHOOSE k \in found : \A j \in found : k <= j

\* the search of cultivars_matched as it would be if it never found one
already_added_Never(cultivar_match) == FALSE

\* "for one_cultivar in cultivars_matched": is the germplasm id in the list
already_added(cultivar_match) ==
    \E k \in 1..Len(cultivars_matched) :
        cultivars_matched[k].germPlasmDbId = cultivar_match.germPlasmDbId

InitExperiments ==
    /\ found_exp_no = 0
    /\ exp_sites = <<>>
    /\ exp_cultivars = <<>>
    /\ site_no = 1
    /\ season_info = <<>>
    /\ rows_before = 0
    /\ cultivars_matched = <<>>
    /\ problem_found = FALSE
    /\ cultivars = <<>>
    /\ epc = "loop"
    /\ IdleBracket
    /\ IdleWeather
    /\ IdleGenerate
    /\ IdleRange
    /\ IdleDates
    /\ IdleDiscovery
    /\ IdlePlot
    /\ IdleMap
    /\ IdleViews
    /\ IdleByDates

\* "for found_exp in found_experiments": the next experiment, with its sites
\* and the BRAPI entries get_cultivars_brapi gave for it
ExperimentNext ==
    /\ epc = "loop"
    /\ site_no > Len(exp_sites)
    /\ found_exp_no < MaxExperiments
    /\ found_exp_no' = found_exp_no + 1
    /\ exp_sites' \in SeqsUpTo(Sites, MaxExpSites)
    /\ exp_cultivars' \in SeqsUpTo(BrapiEntries, MaxEntriesBrapi)
    /\ site_no' = 1
    /\ rows_before' = Len(season_info)
    /\ UNCHANGED <<season_info, cultivars_matched, problem_found, cultivars,
                   epc>>
    /\ UNCHANGED othersThanExperiments

\* one pass of "for one_site in found_exp['sites']" for a site the filter
\* lets through: the match of the cultivar, cultivars_matched, the bounds of
\* the plot (get_bounds_from_wkt raises RuntimeError for a geometry that
\* cannot be read) and the INSERT
SaveSite ==
    /\ epc = "loop"
    /\ site_no <= Len(exp_sites)
    /\ LET cur_site == exp_sites[site_no]
           match == match_cultivar_to_site_brapi(cur_site.id, exp_cultivars)
           cultivar_match == exp_cultivars[match]
       IN  IF match = 0
           THEN /\ problem_found' = TRUE
                /\ UNCHANGED <<season_info, cultivars_matched, epc>>
           ELSE /\ cultivars_matched' =
                       IF already_added(cultivar_match)
                       THEN cultivars_matched
                       ELSE Append(cultivars_matched, cultivar_match)
                /\ \/ /\ season_info' =
                             Append(season_info,
                                    [id |-> cur_site.id,
                                     season_id |-> found_exp_no,
                                     cultivar_id |->
                                         cultivar_match.germPlasmDbId,
                                     site_no |-> site_no])
                      /\ UNCHANGED epc
                   \/ /\ epc' = "RuntimeError"
                      /\ UNCHANGED season_info
                /\ UNCHANGED problem_found
    /\ site_no' = site_no + 1
    /\ UNCHANGED <<found_exp_no, exp_sites, exp_cultivars, rows_before,
                   cultivars>>
    /\ UNCHANGED othersThanExperiments

\* one pass of the loop as it would be without the inclusion filter
ExperimentSite_NoFilter == SaveSite

\* one pass of "for one_site in found_exp['sites']": a site the filter
\* rejects is passed over, any other is matched and saved
ExperimentSite ==
    /\ epc = "loop"
    /\ site_no <= Len(exp_sites)
    /\ IF ~inclusion_match(exp_sites[site_no])
       THEN /\ site_no' = site_no + 1
            /\ UNCHANGED <<found_exp_no, exp_sites, exp_cultivars,
                           season_info, rows_before, cultivars_matched,
                           problem_found, cultivars, epc>>
            /\ UNCHANGED othersThanExperiments
       ELSE SaveSite

\* CREATE UNIQUE INDEX on ('id', 'cultivar_id') fails when two rows have
\* the same pair
IndexFails ==
    \E i, j \in 1..Len(season_info) :
        /\ i # j
        /\ season_info[i].id = season_info[j].id
        /\ season_info[i].cultivar_id = season_info[j].cultivar_id

\* after the loops: the index, the commit, the raise for a site without
\* cultivar; without any experiment None is returned before the loops
ExperimentsReturn ==
    /\ epc = "loop"
    /\ site_no > Len(exp_sites)
    /\ epc' = IF found_exp_no = 0 THEN "returned_none"
              ELSE IF IndexFails THEN "IntegrityError"
              ELSE IF problem_found THEN "RuntimeError"
              ELSE "returned"
    /\ UNCHANGED <<found_exp_no, exp_sites, exp_cultivars, site_no,
                   season_info, rows_before, cultivars_matched,
                   problem_found, cultivars>>
    /\ UNCHANGED othersThanExperiments

\* one_cultivar['germplasmName']: the name the service has for the germplasm
germplasmName(one_cultivar) == <<"name", one_cultivar.germPlasmDbId>>

\* save_cultivars(cultivars_matched): one row for each list element
SaveCultivars ==
    /\ epc = "returned"
    /\ cultivars' = [k \in 1..Len(cultivars_matched) |->
                        [id |-> cultivars_matched[k].germPlasmDbId,
                         name |-> germplasmName(cultivars_matched[k])]]
    /\ epc' = "saved"
    /\ UNCHANGED <<found_exp_no, exp_sites, exp_cultivars, site_no,
                   season_info, rows_before, cultivars_matched, problem_found>>
    /\ UNCHANGED othersThanExperiments

NextExperiments ==
    \/ ExperimentNext
    \/ ExperimentSite
    \/ ExperimentsReturn
    \/ SaveCultivars

SpecExperiments == InitExperiments /\ [][NextExperiments]_vars

----------------------------------------------------------------------------
(* get_experiments_by_dates (src/generate.py 458-504) and what             *)
(* get_save_experiments (660-669) and generate (1905-1906) do with its     *)
(* result                                                                  *)
(*                                                                         *)
(* The requested dates are the two-digit date strings prepare_dates lets   *)
(* through; an experiment of the response is [id, start_date, end_date],   *)
(* its id being its position.  date_experiment_id, a dict, is the set of   *)
(* its <<date, experiment id>> items; remaining_dates, a tuple made from a *)
(* set, is that set.                                                       *)

\* the days the requested dates and the experiments' dates are taken from:
\* the last days of FirstYear and the ones after them
WindowDates ==
    {strftime(ToOrdinal(FirstYear, 12, 30) + k) : k \in 0..(MaxWindowDays - 1)}

Responses ==
    {[k \in 1..Len(ranges) |->
         [id |-> k, start_date |-> ranges[k][1], end_date |-> ranges[k][2]]] :
        ranges \in SeqsUpTo(WindowDates \X WindowDates, MaxResponse)}

InitByDates ==
    /\ requested_dates \in SeqsUpTo(WindowDates, MaxRequested)
    /\ experiments \in Responses
    /\ exp_pos = 1
    /\ found_experiments = <<>>
    /\ date_experiment_id = {}
    /\ remaining_dates = {}
    /\ bpc = "call"
    /\ IdleBracket
    /\ IdleWeather
    /\ IdleGenerate
    /\ IdleRange
    /\ IdleDates
    /\ IdleDiscovery
    /\ IdlePlot
    /\ IdleMap
    /\ IdleExperiments
    /\ IdleViews

\* "remaining_dates = dates" and the response: without 'data' key the
\* function raises RuntimeError
ByDatesLoad ==
    /\ bpc = "call"
    /\ \/ /\ bpc' = "loop"
          /\ remaining_dates' = Range(requested_dates)
       \/ /\ bpc' = "RuntimeError"
          /\ UNCHANGED remaining_dates
    /\ UNCHANGED <<requested_dates, experiments, exp_pos, found_experiments,
                   date_experiment_id>>
    /\ UNCHANGED othersThanByDates

\* date_matches as it would be if the dates were matched against all the
\* requested dates
date_matches_AllDates(exp_dates) ==
    Range(exp_dates) \cap Range(requested_dates)

\* "tuple(set(exp_dates).intersection(set(remaining_dates)))"
date_matches(exp_dates) == Range(exp_dates) \cap remaining_dates

\* one pass of "for one_exp in experiments"
ByDatesExperiment ==
    /\ bpc = "loop"
    /\ exp_pos <= Len(experiments)
    /\ LET exp_data == experiments[exp_pos]
           exp_dates == generate_dates(exp_data.start_date, exp_data.end_date)
           matches == date_matches(exp_dates)
       IN  IF matches # {}
           THEN /\ found_experiments' = Append(found_experiments, exp_data.id)
                /\ remaining_dates' = remaining_dates \ Range(exp_dates)
                /\ date_experiment_id' =
                       {item \in date_experiment_id : item[1] \notin matches}
                           \cup {<<a_date, exp_data.id>> : a_date \in matches}
           ELSE UNCHANGED <<found_experiments, remaining_dates,
                            date_experiment_id>>
    /\ exp_pos' = exp_pos + 1
    /\ UNCHANGED <<requested_dates, experiments, bpc>>
    /\ UNCHANGED othersThanByDates

\* "return found_experiments, date_experiment_id, remaining_dates"
ByDatesReturn ==
    /\ bpc = "loop"
    /\ exp_pos > Len(experiments)
    /\ bpc' = "returned"
    /\ UNCHANGED <<requested_dates, experiments, exp_pos, found_experiments,
                   date_experiment_id, remaining_dates>>
    /\ UNCHANGED othersThanByDates

\* get_save_experiments: the dates left over are logged; "if not
\* found_experiments: return None", otherwise the function goes on to the
\* cultivars and the season_info table
ExperimentsFound ==
    /\ bpc = "returned"
    /\ bpc' = IF found_experiments = <<>> THEN "returned_none"
              ELSE "experiments"
    /\ UNCHANGED <<requested_dates, experiments, exp_pos, found_experiments,
                   date_experiment_id, remaining_dates>>
    /\ UNCHANGED othersThanByDates

\* generate: "experiments, cultivars, date_experiment_ids = None" raises
\* TypeError
GenerateUnpack ==
    /\ bpc = "returned_none"
    /\ bpc' = "TypeError"
    /\ UNCHANGED <<requested_dates, experiments, exp_pos, found_experiments,
                   date_experiment_id, remaining_dates>>
    /\ UNCHANGED othersThanByDates

NextByDates ==
    \/ ByDatesLoad
    \/ ByDatesExperiment
    \/ ByDatesReturn
    \/ ExperimentsFound
    \/ GenerateUnpack

SpecByDates == InitByDates /\ [][NextByDates]_vars

----------------------------------------------------------------------------
(* create_db_views (src/generate.py 1791-1867): the cultivar_files view    *)
(*                                                                         *)
(* The view is "season_info as e left join files as f on e.id = f.plot_id  *)
(* left join cultivars as c on e.cultivar_id = c.id".  The tables are the  *)
(* ones of a build: season_info and cultivars as get_save_experiments and  *)
(* save_cultivars wrote them, files with the plot ids that                 *)
(* map_file_to_plot_id gives, which are ids of sites of the experiments.   *)
(* A row of the view is [plot_id, season, file_id, cultivar_name]; a NULL  *)
(* file_id is None, a NULL cultivar_name is NoName.                        *)

NoName == <<>>

\* the ids of the sites map_file_to_plot_id can return: it goes through
\* one_season['sites'], the sites of the experiments as BETYdb gave them
PlotIds ==
    {exp_sites[k].id : k \in 1..Len(exp_sites)}
        \cup {season_info[r].id : r \in 1..Len(season_info)}

\* "on e.id = f.plot_id"
JoinsFile(e, f) == e.id = f.plot_id

\* "on e.cultivar_id = c.id" as it would be without the condition
JoinsCultivar_Any(e, c) == TRUE

\* "on e.cultivar_id = c.id"
JoinsCultivar(e, c) == e.cultivar_id = c.id

\* a left join pairs a row that matches nothing with <<0>>, the NULL row
OrNull(matching) == IF matching = <<>> THEN <<0>> ELSE matching

\* the positions of the rows of files that the first left join pairs with e
FilesJoined(e) ==
    OrNull(SelectSeq([k \in 1..Len(files_table) |-> k],
                     LAMBDA k : JoinsFile(e, files_table[k])))

\* the positions of the rows of cultivars that the second one pairs with e
CultivarsJoined(e) ==
    OrNull(SelectSeq([k \in 1..Len(cultivars) |-> k],
                     LAMBDA k : JoinsCultivar(e, cultivars[k])))

\* the rows of the view for the row e of season_info
ViewRowsOf(e) ==
    LET fs == FilesJoined(e)
        cs == CultivarsJoined(e)
    IN  [n \in 1..(Len(fs) * Len(cs)) |->
            LET f == fs[((n - 1) \div Len(cs)) + 1]
                c == cs[((n - 1) % Len(cs)) + 1]
            IN  [plot_id |-> e.id,
                 season |-> e.season_id,
                 file_id |-> IF f = 0 THEN None ELSE files_table[f].id,
                 cultivar_name |->
                     IF c = 0 THEN NoName ELSE cultivars[c].name]]

RECURSIVE ViewRows(_)
ViewRows(k) ==
    IF k > Len(season_info) THEN <<>>
    ELSE ViewRowsOf(season_info[k]) \o ViewRows(k + 1)

\* globus_get_save_files has written the files table: file ids 1..n, each
\* file with the plot id map_file_to_plot_id returned for it
SaveFilesTable ==
    /\ epc = "saved"
    /\ \E plot_ids \in SeqsUpTo(PlotIds, MaxViewFiles) :
           files_table' = [file_id \in 1..Len(plot_ids) |->
                              [id |-> file_id, plot_id |-> plot_ids[file_id]]]
    /\ epc' = "files"
    /\ UNCHANGED cultivar_files
    /\ UNCHANGED <<found_exp_no, exp_sites, exp_cultivars, site_no,
                   season_info, rows_before, cultivars_matched,
                   problem_found, cultivars>>
    /\ UNCHANGED <<bracketVars, weatherVars, generateVars, rangeVars,
                   datesVars, discoveryVars, plotVars, mapVars, byDatesVars>>

\* create_db_views: what cultivar_files selects from the tables of the build
CreateDbViews ==
    /\ epc = "files"
    /\ cultivar_files' = ViewRows(1)
    /\ epc' = "views"
    /\ UNCHANGED files_table
    /\ UNCHANGED <<found_exp_no, exp_sites, exp_cultivars, site_no,
                   season_info, rows_before, cultivars_matched,
                   problem_found, cultivars>>
    /\ UNCHANGED <<bracketVars, weatherVars, generateVars, rangeVars,
                   datesVars, discoveryVars, plotVars, mapVars, byDatesVars>>

InitViews ==
    /\ InitExperiments
    /\ files_table = <<>>

NextViews ==
    \/ ExperimentNext
    \/ ExperimentSite
    \/ ExperimentsReturn
    \/ SaveCultivars
    \/ SaveFilesTable
    \/ CreateDbViews

SpecViews == InitViews /\ [][NextViews]_vars

----------------------------------------------------------------------------
(* Claims about find_file_weather_ids and b_search *)

StartSearchDone == fpc \notin {"call_start", "loop_start"}

FinishSearchDone ==
    fpc \in {"check", "returned", "raised_no_weather", "raised_wrong"}

\* What C1 asks of one b_search result (lo, hi) for the timestamp t.
Brackets(t, lo, hi) ==
    LET ts == ordered_weather_timestamps
        n == Len(ts)
    IN  (n >= 1 /\ IsStrictlyAscending(ts)) =>
            /\ (At(ts, 0) <= t /\ t <= At(ts, n - 1)) =>
                   /\ lo # None
                   /\ hi # None
                   /\ lo <= hi
                   /\ At(ts, lo) <= t
                   /\ t <= At(ts, hi)
            /\ (t < At(ts, 0)) => lo = None
            /\ (t > At(ts, n - 1)) => hi = None

\* C1: for a strictly ascending timestamp tuple of length >= 1, b_search
\* returns, for a timestamp within the range of the tuple, two present
\* indices lo <= hi whose timestamps bracket it; for a timestamp before the
\* first element the lower index is absent, and for one after the last
\* element the upper index is absent.
C1_BSearchBrackets ==
    /\ StartSearchDone =>
           Brackets(start_ts, min_start_index, max_start_index)
    /\ FinishSearchDone =>
           Brackets(finish_ts, min_finish_index, max_finish_index)

\* C2: whenever find_file_weather_ids returns a pair, the pair satisfies
\* min_weather_id <= max_weather_id, also for a window whose start is later
\* than its finish.
C2_PairOrdered ==
    fpc = "returned" => weather_pair[1] <= weather_pair[2]

----------------------------------------------------------------------------
(* Claims about get_save_weather *)

\* C3: after get_save_weather the weather ids are in strictly increasing
\* timestamp order (the smaller id has the earlier timestamp), whatever the
\* order of the dates and of the readings inside the files; hence the k-th
\* id of get_ordered_weather_ids_timestamps is the id of the reading that
\* holds the k-th timestamp.
C3_IdsInTimestampOrder ==
    /\ wpc \in {"returned", "ordered"} =>
           \A i, j \in DOMAIN weather_timestamps :
               i < j => weather_timestamps[i] < weather_timestamps[j]
    /\ wpc = "ordered" =>
           \A k \in DOMAIN ordered_weather[1] :
               weather_timestamps[ordered_weather[1][k]] = ordered_weather[2][k]

----------------------------------------------------------------------------
(* Claims about generate *)

\* The calls whose failure C4 is about: everything before the move.
BuildStages ==
    {"authorize", "experiments", "cultivars", "files", "weather",
     "weather_file_map", "gene_markers", "cultivar_genes", "views"}

\* What a run with these arguments has to have built before it publishes.
RequiredTables ==
    {"season_info", "cultivars", "files", "weather", "weather_file_map",
     "cultivar_files", "weather_files", "unified"}
        \cup (IF gene_marker_file THEN {"gene_markers"} ELSE {})
        \cup (IF cultivar_gene_map_file THEN {"cultivar_genes"} ELSE {})

\* C4: the output file is created or replaced only after the experiments,
\* cultivars, files, weather, weather_file_map, the optional gene tables and
\* the views have all been built without a raise; if one of these steps
\* raises, the output file is left as it was and, once generate has ended,
\* the temporary working file is removed.
C4_PublishedOnlyWhenBuilt ==
    /\ output_file \notin {"absent", "previous"} =>
           /\ RequiredTables \subseteq tables
           /\ raised \notin BuildStages
    /\ raised \in BuildStages => output_file \in {"absent", "previous"}
    /\ gpc \in {"done", "failed"} => ~working_file

\* C4's case: a run whose last build step, the views, raised has ended.
C4_Witness ==
    /\ gpc = "failed"
    /\ raised = "views"
    /\ "weather_file_map" \in tables

----------------------------------------------------------------------------
(* Claims about generate_dates and prepare_dates *)

\* "earlier than" on date strings, read as year, month, day
TextBefore(a, b) ==
    \/ a[1] < b[1]
    \/ a[1] = b[1] /\ a[2] < b[2]
    \/ a[1] = b[1] /\ a[2] = b[2] /\ a[3] < b[3]

\* every day of the calendar of the two years, as a two-digit date string
CalendarDays ==
    {date \in (FirstYear..(FirstYear + 1)) \X (1..12) \X (1..31) \X {1} :
        IsCalendarDate(date[1], date[2], date[3])}

DaysBetween(a, b) ==
    LET lo == IF TextBefore(a, b) THEN a ELSE b
        hi == IF TextBefore(a, b) THEN b ELSE a
    IN  {date \in CalendarDays :
            ~TextBefore(date, lo) /\ ~TextBefore(hi, date)}

\* C10: for valid dates a and b, generate_dates(a, b) and generate_dates(b, a)
\* are the same list, and that list holds every calendar day from the earlier
\* of the two dates to the later one, both included, in ascending order.
C10_BothOrdersAllDaysAscending ==
    rpc = "returned" =>
        /\ range_dates = generate_dates(last_date, start_date)
        /\ \A i \in 1..(Len(range_dates) - 1) :
               TextBefore(range_dates[i], range_dates[i + 1])
        /\ {range_dates[i] : i \in 1..Len(range_dates)}
               = DaysBetween(start_date, last_date)

\* generate_dates was called with the later date first, more than a month
\* apart and across the turn of the year, and returned the days between
C10_Witness ==
    /\ rpc = "returned"
    /\ TextBefore(last_date, start_date)
    /\ Len(range_dates) > 31
    /\ range_dates[1][1] # range_dates[Len(range_dates)][1]
    /\ range_dates[1] = last_date

\* an item that is one valid date, or two valid dates around one colon
ItemIsValid(one_item) ==
    /\ Len(one_item) <= 2
    /\ \A k \in 1..Len(one_item) : validate_date(strip(one_item[k]))

\* C9: prepare_dates returns a list only if every comma separated item is a
\* valid date or a valid range; if one is not, it raises RuntimeError after
\* it has looked at every item, and returns nothing.
C9_ReturnsOnlyIfAllValidElseRuntimeError ==
    LET all_valid == \A k \in 1..Len(all_dates) : ItemIsValid(all_dates[k])
    IN  /\ dpc = "returned" => all_valid
        /\ (dpc \in {"returned", "RuntimeError", "ValueError"} /\ ~all_valid)
               => dpc = "RuntimeError" /\ item_pos = Len(all_dates) + 1

----------------------------------------------------------------------------
(* Claims about the discovery of the files *)

\* how often a file is among the records globus_get_files returned
TimesFound(file) ==
    LET date_files == AllFound(1)
    IN  Cardinality({k \in 1..Len(date_files) : FileId(date_files[k]) = file})

\* C5: when the mapper returns None for a file of a folder without a sidecar
\* of its own, discovery does not fail: globus_get_files_info returns the
\* file's record, without json_file, and the walk goes on.
C5_MapperNoneDoesNotFail ==
    /\ mapper_gave_none # {} => tpc # "RuntimeWarning"
    /\ mapper_gave_none \subseteq files_info_made

\* C6: a file whose name holds no timestamp token, so that the mapper returns
\* None, is never the cause of an aborted run and is not dropped: when the
\* files are saved it is exactly one row of the files table.
C6_NoTokenFileIsOneRow ==
    \A file \in mapper_gave_none :
        /\ tpc \notin {"RuntimeWarning", "KeyError"}
        /\ tpc = "saved" =>
               Cardinality({k \in 1..Len(files_rows) :
                   <<files_rows[k].folder, files_rows[k].filename>> = file})
                   = 1

\* C7: when globus_get_files returns, every record globus_get_files_info
\* produced is in the returned lists exactly once, also when the download
\* list is empty after the last date, and nothing is returned twice.
C7_EveryRecordReturnedOnce ==
    tpc = "returned" =>
        /\ \A file \in files_info_made : TimesFound(file) = 1
        /\ Len(AllFound(1)) = Cardinality(files_info_made)

\* C8: the list of sidecar paths waiting for retrieval never holds more than
\* the batch size (10) of paths.
C8_DownloadListWithinBatch == Len(download_file_list) <= BatchSize

----------------------------------------------------------------------------
(* Claims about map_file_to_plot_id *)

\* the sites of the seasons with the wanted id, in list order
RECURSIVE SitesOfSeason(_)
SitesOfSeason(k) ==
    IF k > Len(seasons) THEN <<>>
    ELSE (IF seasons[k].id = season_id THEN seasons[k].sites ELSE <<>>)
             \o SitesOfSeason(k + 1)

MatchingSites ==
    LET sites == SitesOfSeason(1)
    IN  {j \in 1..Len(sites) : sites[j].sitename \in file_parts}

\* C11: map_file_to_plot_id returns the id of the first site, in list order
\* among the sites of the seasons whose id is season_id (several entries may
\* carry that id), whose sitename is a segment of the file path.
C11_FirstMatchingSiteOfSeason ==
    ppc = "returned" =>
        /\ MatchingSites # {}
        /\ LET first == CHOOSE j \in MatchingSites :
                            \A other \in MatchingSites : j <= other
           IN  found_plot_id = SitesOfSeason(1)[first].id

\* C12: if no site of the file's season has a sitename that is a segment of
\* the file path, map_file_to_plot_id raises, globus_get_save_files raises
\* again and the run ends without an output file being published; the file
\* is never stored with a missing plot id.
C12_NoMatchingSiteAbortsRun ==
    /\ (MatchingSites = {} /\ ppc # "call") =>
           /\ ppc \in {"RuntimeError", "reraised"}
           /\ files_rows = <<>>
           /\ output_file \in {"absent", "previous"}
    /\ ppc = "reraised" =>
           /\ raised = "files"
           /\ gpc \in {"finally", "failed"}
           /\ gpc = "failed" => ~working_file
    /\ \A k \in 1..Len(files_rows) : files_rows[k].plot_id # None

\* the season of the file has sites with a name, none of them is a segment
\* of the path, and the run has ended
C12_Witness ==
    /\ ppc = "reraised"
    /\ gpc = "failed"
    /\ MatchingSites = {}
    /\ \E j \in 1..Len(SitesOfSeason(1)) : SitesOfSeason(1)[j].sitename # None
    /\ file_parts # {}

----------------------------------------------------------------------------
(* Claims about create_weather_files_table *)

BracketIndices ==
    {min_start_index, max_start_index, min_finish_index, max_finish_index}

FindEnded == fpc \in {"returned", "raised_no_weather", "raised_wrong"}

\* C13: if b_search gives no lower or no upper index for the start or for the
\* finish of a file's window, find_file_weather_ids raises, no row of
\* weather_file_map is written for the file and the run ends there; a pair
\* is returned only when the four indices are there.
C13_AbsentIndexRaisesNoRow ==
    /\ fpc = "returned" => None \notin BracketIndices
    /\ (FindEnded /\ None \in BracketIndices) => fpc = "raised_no_weather"
    /\ (mpc # "idle" /\ fpc = "raised_no_weather") =>
           /\ mpc \in {"find", "RuntimeError"}
           /\ \A k \in 1..Len(weather_file_map) :
                  weather_file_map[k].file_id # map_file

\* the second file's window is outside the readings: its call raised after
\* the first file's row was written, and the table's build has ended
C13_Witness ==
    /\ mpc = "RuntimeError"
    /\ fpc = "raised_no_weather"
    /\ map_file = 2
    /\ Len(weather_file_map) = 1
    /\ Len(ordered_weather_timestamps) >= 2

----------------------------------------------------------------------------
(* Further claims about find_file_weather_ids and b_search *)

\* C14, as stated: with the four bracket indices there, find_file_weather_ids
\* aborts on its precondition check exactly when the lower index of the start
\* is greater than the upper index of the finish.
C14_AbortsIffStartLowerAboveFinishUpper ==
    (FindEnded /\ None \notin BracketIndices) =>
        (fpc = "raised_wrong" <=> min_start_index > max_finish_index)

\* C14, amended: with the four bracket indices there, find_file_weather_ids
\* aborts on its precondition check exactly when the lower index of the start
\* is greater than the lower index of the finish.
C14_AbortsIffStartLowerAboveFinishLower ==
    (FindEnded /\ None \notin BracketIndices) =>
        (fpc = "raised_wrong" <=> min_start_index > min_finish_index)

\* the check aborted although the lower index of the start is not greater
\* than the upper index of the finish
C14_Witness ==
    /\ fpc = "raised_wrong"
    /\ None \notin BracketIndices
    /\ min_start_index <= max_finish_index
    /\ start_ts > finish_ts

\* What C15 asks of one b_search result (lo, hi) for the timestamp t.
BoundaryHit(t, lo, hi) ==
    LET ts == ordered_weather_timestamps
        n == Len(ts)
    IN  (n >= 1 /\ IsStrictlyAscending(ts)) =>
            /\ t = At(ts, 0) => (lo = 0 /\ hi = 0)
            /\ t = At(ts, n - 1) => (lo = n - 1 /\ hi = n - 1)

\* C15: for an ascending tuple of distinct timestamps of any length n >= 1,
\* b_search for the first or for the last element returns (k, k), k being
\* the index of that element, with neither side absent.
C15_BoundaryElementFound ==
    /\ StartSearchDone =>
           BoundaryHit(start_ts, min_start_index, max_start_index)
    /\ FinishSearchDone =>
           BoundaryHit(finish_ts, min_finish_index, max_finish_index)

----------------------------------------------------------------------------
(* Claims about get_save_experiments and save_cultivars *)

\* the rows of season_info written for the experiment the loop is at
RowsOfExperiment == (rows_before + 1)..Len(season_info)

\* the BRAPI entries of the experiment whose observationUnitDbId is the id
EntriesOfSite(site_id) ==
    {k \in 1..Len(exp_cultivars) :
        exp_cultivars[k].observationUnitDbId = site_id}

GermplasmOf(rows) == {rows[k].cultivar_id : k \in 1..Len(rows)}

\* C16: every row of season_info belongs to a site that has the key of
\* PLOT_INCLUSION_FILTERS with the required value and for which a BRAPI entry
\* with the site's id as observationUnitDbId was found; the row's cultivar_id
\* is the germplasm id of that entry, the first such entry of the list.
C16_RowsAreFilteredAndMatched ==
    \A r \in RowsOfExperiment :
        LET row == season_info[r]
            site == exp_sites[row.site_no]
        IN  /\ row.id = site.id
            /\ row.season_id = found_exp_no
            /\ site.city = "Maricopa"
            /\ EntriesOfSite(site.id) # {}
            /\ \E k \in EntriesOfSite(site.id) :
                   /\ \A j \in EntriesOfSite(site.id) : k <= j
                   /\ row.cultivar_id = exp_cultivars[k].germPlasmDbId

\* both experiments are done, the second has a site in another city that
\* is not in season_info and a site that is, found under two BRAPI entries
C16_Witness ==
    /\ epc = "saved"
    /\ found_exp_no = 2
    /\ Len(exp_sites) = 2
    /\ exp_sites[1].city = "Elsewhere"
    /\ Len(season_info) = rows_before + 1
    /\ Cardinality(EntriesOfSite(exp_sites[2].id)) = 2
    /\ exp_cultivars[1].germPlasmDbId # exp_cultivars[2].germPlasmDbId

\* C17: after get_save_experiments and save_cultivars a germplasm id is in
\* the cultivars table if and only if a site of season_info refers to it; a
\* site that fails the inclusion filter is not in season_info and does not
\* bring its germplasm id into the table.
C17_CultivarsAreThoseOfSeasonInfo ==
    /\ epc = "saved" =>
           {cultivars[k].id : k \in 1..Len(cultivars)}
               = GermplasmOf(season_info)
    /\ epc \in {"loop", "returned", "saved"} =>
           {cultivars_matched[k].germPlasmDbId :
               k \in 1..Len(cultivars_matched)} = GermplasmOf(season_info)
    /\ \A r \in RowsOfExperiment :
           inclusion_match(exp_sites[season_info[r].site_no])

\* a site without the 'city' key has a BRAPI entry whose germplasm id is
\* not in the cultivars table, which holds the id of another site
C17_Witness ==
    /\ epc = "saved"
    /\ Len(cultivars) = 1
    /\ \E k \in 1..Len(exp_sites) :
           /\ exp_sites[k].city = "absent"
           /\ \E j \in EntriesOfSite(exp_sites[k].id) :
                  exp_cultivars[j].germPlasmDbId # cultivars[1].id

\* C18: the cultivars table holds each germplasm id at most once, whatever
\* the sites of the experiments are.
C18_CultivarIdsDistinct ==
    /\ \A i, j \in 1..Len(cultivars) :
           i # j => cultivars[i].id # cultivars[j].id
    /\ \A i, j \in 1..Len(cultivars_matched) :
           i # j => cultivars_matched[i].germPlasmDbId
                        # cultivars_matched[j].germPlasmDbId

\* sites of two experiments refer to one germplasm id: one cultivars row
C18_Witness ==
    /\ epc = "saved"
    /\ Len(cultivars) = 1
    /\ Len(season_info) = 2
    /\ season_info[1].season_id # season_info[2].season_id
    /\ season_info[1].cultivar_id = season_info[2].cultivar_id

----------------------------------------------------------------------------
(* Claims about create_weather_files_table *)

\* the rows of weather_file_map written for a file id
RowsOfFile(file_id) ==
    {k \in 1..Len(weather_file_map) : weather_file_map[k].file_id = file_id}

\* C19: when create_weather_files_table has completed, weather_file_map has
\* exactly one row for each file id of files_timestamps and no row for any
\* other id, and the ids of its rows are 1..N without gap; a file whose
\* window find_file_weather_ids cannot bracket makes the function raise, it
\* is never passed over.
C19_OneRowPerFileIdsWithoutGap ==
    /\ mpc = "done" =>
           /\ \A f \in 1..Len(files_timestamps) :
                  Cardinality(RowsOfFile(f)) = 1
           /\ \A k \in 1..Len(weather_file_map) :
                  weather_file_map[k].file_id \in 1..Len(files_timestamps)
           /\ Len(weather_file_map) = Len(files_timestamps)
           /\ {weather_file_map[k].id : k \in 1..Len(weather_file_map)}
                  = 1..Len(files_timestamps)
    /\ mpc = "RuntimeError" =>
           /\ fpc \in {"raised_no_weather", "raised_wrong"}
           /\ RowsOfFile(map_file) = {}
    /\ mpc \in {"loop", "done"} =>
           \A f \in 1..(map_file - 1) : RowsOfFile(f) # {}

\* the table is complete for two files that lie between different readings
C19_Witness ==
    /\ mpc = "done"
    /\ Len(files_timestamps) = 2
    /\ Len(weather_file_map) = 2
    /\ weather_file_map[1].min_weather_id # weather_file_map[2].min_weather_id

----------------------------------------------------------------------------
(* Claims about the listing of a date's folder in globus_get_files *)

\* a step in which the listing of the date's folder fails
ListingFails ==
    /\ tpc = "list_date"
    /\ walk_date <= MaxWalkDates
    /\ num_entries' = None

\* C20: when the listing of a date's folder fails with a TransferAPIError,
\* globus_get_files passes over that date only: the walk is at the next
\* date, nothing is raised, and the records and downloads collected for the
\* other dates are what they were, so that they are returned as without the
\* failure.
C20_FailedListingSkipsDateOnly ==
    [][ListingFails =>
           /\ walk_date' = walk_date + 1
           /\ tpc' = "list_date"
           /\ found_files' = found_files
           /\ working_file_set' = working_file_set
           /\ download_file_list' = download_file_list
           /\ files_info_made' = files_info_made]_vars

\* the listing of the last date failed and globus_get_files has returned
\* the records of the date before it
C20_Witness ==
    /\ tpc = "returned"
    /\ num_entries = None
    /\ found_files[MaxWalkDates] = <<>>
    /\ found_files[1] # <<>>

----------------------------------------------------------------------------
(* Claims about the views and about the plot ids of the files table *)

\* the rows of cultivar_files for a row of season_info and a file
ViewRowsOfPair(e, f) ==
    {n \in 1..Len(cultivar_files) :
        /\ cultivar_files[n].plot_id = e.id
        /\ cultivar_files[n].season = e.season_id
        /\ cultivar_files[n].file_id = f.id}

\* C21: for the season_info, cultivars and files rows of a build that came
\* to its views, cultivar_files has exactly one row for each pair of a site
\* of season_info and a file with files.plot_id = season_info.id, and the
\* row has the name of the cultivar whose id is the site's cultivar_id.
C21_OneViewRowPerSiteAndFile ==
    epc = "views" =>
        \A k \in 1..Len(season_info), j \in 1..Len(files_table) :
            LET e == season_info[k]
                f == files_table[j]
            IN  f.plot_id = e.id =>
                    /\ Cardinality(ViewRowsOfPair(e, f)) = 1
                    /\ \A n \in ViewRowsOfPair(e, f) :
                           \E c \in 1..Len(cultivars) :
                               /\ cultivars[c].id = e.cultivar_id
                               /\ cultivar_files[n].cultivar_name
                                      = cultivars[c].name

\* one site is in season_info for two experiments, with two cultivars, and
\* two files are on its plot: four rows of the view
C21_Witness ==
    /\ epc = "views"
    /\ Len(season_info) = 2
    /\ season_info[1].id = season_info[2].id
    /\ season_info[1].cultivar_id # season_info[2].cultivar_id
    /\ Len(files_table) = 2
    /\ files_table[1].plot_id = season_info[1].id
    /\ files_table[2].plot_id = season_info[1].id
    /\ Len(cultivar_files) = 4

\* C27: after a build that came to its views, every row of the files table
\* has as plot_id the id of some row of season_info: no file is on a site
\* that the inclusion filter kept out of season_info.
C27_PlotIdsAreInSeasonInfo ==
    epc = "views" =>
        \A j \in 1..Len(files_table) :
            \E k \in 1..Len(season_info) :
                season_info[k].id = files_table[j].plot_id

----------------------------------------------------------------------------
(* Claims about get_experiments_by_dates and the dates without experiment *)

ByDatesEnded == bpc \in {"returned", "returned_none", "experiments", "TypeError"}

MappedDates == {item[1] : item \in date_experiment_id}

\* the experiment's range, whichever of its two dates is the earlier
Covers(exp_data, date) ==
    \/ /\ parse(exp_data.start_date) <= parse(date)
       /\ parse(date) <= parse(exp_data.end_date)
    \/ /\ parse(exp_data.end_date) <= parse(date)
       /\ parse(date) <= parse(exp_data.start_date)

\* C22: a requested date that no experiment covers is left out of the
\* date-to-experiment map and the run goes on: get_save_experiments does
\* not return None and generate does not raise, whatever the requested
\* dates are.
C22_UncoveredDateRunContinues ==
    (ByDatesEnded /\ remaining_dates # {}) =>
        /\ remaining_dates \cap MappedDates = {}
        /\ bpc \notin {"returned_none", "TypeError"}

\* C30: when get_experiments_by_dates has returned, every requested date is
\* either a key of the date-to-experiment map or one of the unmatched dates,
\* never both; a key has one experiment, the first of the response whose
\* range of dates contains it, not a later one that contains it too.
C30_MappedToFirstOrUnmatched ==
    ByDatesEnded =>
        /\ \A date \in Range(requested_dates) :
               (date \in MappedDates) # (date \in remaining_dates)
        /\ MappedDates \cup remaining_dates = Range(requested_dates)
        /\ \A item \in date_experiment_id :
               /\ Covers(experiments[item[2]], item[1])
               /\ \A k \in 1..(item[2] - 1) :
                      ~Covers(experiments[k], item[1])
               /\ \A other \in date_experiment_id :
                      other[1] = item[1] => other[2] = item[2]

\* two experiments contain a requested date, which has the first one's id,
\* and another requested date is in none
C30_Witness ==
    /\ bpc = "returned"
    /\ Len(experiments) = 2
    /\ \E item \in date_experiment_id :
           /\ item[2] = 1
           /\ Covers(experiments[2], item[1])
    /\ remaining_dates # {}
    /\ found_experiments = <<1>>

----------------------------------------------------------------------------
(* Further claims about b_search and the choice of the closest readings *)

\* the Python indices of the timestamps that are <= t, and of those >= t
IndicesUpTo(t) ==
    {i \in 0..(Len(ordered_weather_timestamps) - 1) :
        At(ordered_weather_timestamps, i) <= t}

IndicesFrom(t) ==
    {i \in 0..(Len(ordered_weather_timestamps) - 1) :
        At(ordered_weather_timestamps, i) >= t}

Tightest(t, lo, hi) ==
    /\ lo # None =>
           /\ lo \in IndicesUpTo(t)
           /\ \A i \in IndicesUpTo(t) : i <= lo
    /\ hi # None =>
           /\ hi \in IndicesFrom(t)
           /\ \A i \in IndicesFrom(t) : hi <= i
    /\ (/\ Len(ordered_weather_timestamps) > 0
        /\ IndicesUpTo(t) = {}) => hi = 0

\* C23: for every ascending timestamp tuple and every search timestamp t,
\* the lower index b_search returns, when there is one, is the largest index
\* whose timestamp is <= t, and the upper index, when there is one, is the
\* smallest index whose timestamp is >= t; for a t earlier than every
\* timestamp the upper index is 0.
C23_TightestBracket ==
    /\ StartSearchDone =>
           Tightest(start_ts, min_start_index, max_start_index)
    /\ FinishSearchDone =>
           Tightest(finish_ts, min_finish_index, max_finish_index)

\* the elapsed time between a timestamp and the reading at an index
Elapsed(t, idx) ==
    IF t >= At(ordered_weather_timestamps, idx)
    THEN t - At(ordered_weather_timestamps, idx)
    ELSE At(ordered_weather_timestamps, idx) - t

\* the id is the one at the index, of lo and hi, that is closer to t, and at
\* the index "tie" when both are as close
IsClosest(id, t, lo, hi, tie) ==
    \E idx \in {lo, hi} :
        /\ id = At(ordered_weather_ids, idx)
        /\ Elapsed(t, idx) <= Elapsed(t, lo)
        /\ Elapsed(t, idx) <= Elapsed(t, hi)
        /\ Elapsed(t, lo) = Elapsed(t, hi) => idx = tie

----------------------------------------------------------------------------
(* Further claims about globus_get_files_info and the download list *)

\* the records globus_get_files_info made that wait for their details
WaitingRecords ==
    IF tpc = "idle" THEN {}
    ELSE UNION {Range(working_file_set[d]) : d \in WalkDates}

\* a sidecar was listed in the folder of the record
SidecarListed(one_file) ==
    \E other \in WaitingRecords :
        other.directory = one_file.directory /\ other.kind = "sidecar"

\* C25: in a capture folder where no sidecar was listed, the json_file of
\* every file that is not a sidecar is what the mapper gives for that
\* file's own name, not what it gave for another file of the folder.
C25_SidecarFromOwnName ==
    \A one_file \in WaitingRecords :
        (one_file.kind = "data" /\ ~SidecarListed(one_file)) =>
            one_file.json_file = metadata_file_mapper(one_file)

\* the rows of the files table written for a record
RowsOfRecord(one_file) ==
    {k \in 1..Len(files_rows) :
        /\ files_rows[k].folder = one_file.directory
        /\ files_rows[k].filename = one_file.filename}

\* C26: every record globus_get_files returns, the records of the sidecar
\* files and the records without time or position among them, is inserted
\* by globus_get_save_files as exactly one row of the files table; no such
\* record makes the insert raise.
C26_EveryReturnedRecordIsOneRow ==
    /\ tpc # "KeyError"
    /\ tpc = "saved" =>
           \A k \in 1..Len(AllFound(1)) :
               Cardinality(RowsOfRecord(AllFound(1)[k])) = 1

\* C28: at every point of globus_get_files the list of paths waiting for
\* retrieval holds no path twice: a sidecar that several files of a capture
\* folder share is in the list once.
C28_DownloadListWithoutRepeat ==
    \A i, j \in 1..Len(download_file_list) :
        i # j => download_file_list[i] # download_file_list[j]

----------------------------------------------------------------------------
(* Termination of b_search *)

\* C29: b_search terminates for every ascending timestamp tuple, duplicates
\* included, and every search timestamp: each of the two searches of
\* find_file_weather_ids, once called, comes to its return.
C29_BSearchTerminates ==
    /\ (fpc \in {"call_start", "loop_start"}) ~> StartSearchDone
    /\ (fpc \in {"call_finish", "loop_finish"}) ~> FinishSearchDone

\* the second search went twice through its loop over four readings with a
\* duplicate, narrowing from both sides, and has returned
C29_Witness ==
    /\ fpc = "check"
    /\ Len(ordered_weather_timestamps) = 4
    /\ first_idx = 1
    /\ last_idx = 2
    /\ At(ordered_weather_timestamps, 0) = At(ordered_weather_timestamps, 1)

=============================================================================
